---- MODULE Spec2Model ----
(***************************************************************************)
(* The analysis engine of raid-analyzer (src/src/analysis.rs): the program *)
(* table loaded from a directory, the worker pool fed by one shared        *)
(* dispatch queue, and the per-run coordinator (ProgramRun) that unblocks  *)
(* analyzers as their dependencies complete; and the replay builder        *)
(* (src/src/challenge.rs) that reconstructs every player's state at every  *)
(* tick of a stage from the stage's events.                                *)
(***************************************************************************)
EXTENDS Integers, Sequences, FiniteSets, TLC

(***************************************************************************)
(* Bounds of the model.                                                    *)
(***************************************************************************)
\* Number of successful run_program calls explored over the whole program
\* catalogue, and over the two-analyzer programs that share the pool.
MaxRuns == 1
MaxSharedRuns == 2
\* Largest worker_count handed to Engine::start.
MaxWorkers == 2
\* Events of a stage given to the replay builder
MaxEvents == 3
\* The last tick of a stage with events at every tick
MaxTicks == 4
\* Equipment deltas of one PlayerUpdate event
MaxDeltas == 3

\* mpsc::channel(8) in ProgramRun::new.
NotifyCapacity == 8

(***************************************************************************)
(* Inputs: the files a program directory may hold.  Each *.toml file       *)
(* deserializes to a ProgramConfig {program.name, analyzers}; an analyzer  *)
(* definition is {implementation, dependencies, config}.  A dependency     *)
(* list of None and an empty list behave alike in unblock_analyzers, so    *)
(* dependencies are a set.                                                 *)
(***************************************************************************)
Def(impl, deps, cfg) == [implementation |-> impl, dependencies |-> deps, config |-> cfg]

ValidFiles == {"dag.toml", "dag_old.toml", "tob.toml", "tob_nodeps.toml",
               "cyclic.toml", "dangling.toml"}

Files == ValidFiles \cup {"broken.toml", "README.md"}

\* path.extension() == "toml"
IsToml(f) == f # "README.md"

\* toml::from_str succeeds
Parses(f) == f \in ValidFiles

\* ProgramConfig.program.name of a file that parses
ProgramName(f) ==
    CASE f = "dag.toml"        -> "dag"
      [] f = "dag_old.toml"    -> "dag"
      [] f = "tob.toml"        -> "tob"
      [] f = "tob_nodeps.toml" -> "tob_nodeps"
      [] f = "cyclic.toml"     -> "cyclic"
      [] f = "dangling.toml"   -> "dangling"

\* ProgramConfig.analyzers of a file that parses: logical name -> definition
Analyzers(f) ==
    CASE f = "dag.toml" ->
            [a |-> Def("TestAnalyzer", {}, "ok"),
             b |-> Def("TestOffsetAnalyzer", {"a"}, "ok"),
             c |-> Def("TestOffsetAnalyzer", {"a"}, "ok")]
      [] f = "dag_old.toml" ->
            [a |-> Def("TestAnalyzer", {}, "ok"),
             b |-> Def("LegacyAnalyzer", {}, "none")]
      [] f = "tob.toml" ->
            [gear  |-> Def("GearAnalyzer", {}, "none"),
             roles |-> Def("TobRoleAnalyzer", {"gear"}, "none")]
      [] f = "tob_nodeps.toml" ->
            [gear  |-> Def("GearAnalyzer", {}, "none"),
             roles |-> Def("TobRoleAnalyzer", {}, "none")]
      [] f = "cyclic.toml" ->
            [a |-> Def("TestAnalyzer", {"a"}, "ok"),
             b |-> Def("TestOffsetAnalyzer", {"c"}, "ok"),
             c |-> Def("TestOffsetAnalyzer", {"b"}, "ok")]
      [] f = "dangling.toml" ->
            [a |-> Def("TestAnalyzer", {}, "ok"),
             b |-> Def("TestOffsetAnalyzer", {"a", "ghost"}, "ok")]

AnalyzerNames(f) == DOMAIN Analyzers(f)

Dependencies(f, n) == Analyzers(f)[n].dependencies

Implementation(f, n) == Analyzers(f)[n].implementation

ProgramNames == {ProgramName(f) : f \in ValidFiles}

\* The names run_program is called with: every program name and one that
\* no file declares.
RequestedNames == ProgramNames \cup {"nosuch"}

\* The directories handed to load_from_directory.
Directories ==
    { ValidFiles \cup {"README.md"},
      ValidFiles \ {"dag_old.toml"},
      {"dag.toml", "broken.toml"},
      {"README.md"} }

\* A directory of two programs over the same two analyzers, and the names
\* run_program is called with there.
SharedDirectories == { {"tob.toml", "tob_nodeps.toml"} }

SharedNames == {"tob", "tob_nodeps", "nosuch"}

\* Logical names in the order of String's Ord, the iteration order of the
\* BTreeMap `pending`.
NameOrder == <<"a", "b", "c", "gear", "roles">>

RECURSIVE SortedFrom(_, _)
SortedFrom(S, i) ==
    IF i > Len(NameOrder) THEN <<>>
    ELSE (IF NameOrder[i] \in S THEN <<NameOrder[i]>> ELSE <<>>) \o SortedFrom(S, i + 1)

\* pending.into_values(): the analyzers of S by ascending logical name
Sorted(S) == SortedFrom(S, 1)

(***************************************************************************)
(* The challenge a run analyzes, as far as the analyzers' results depend   *)
(* on it.                                                                  *)
(***************************************************************************)
\* "tob": a Theatre of Blood raid whose roles can be told apart;
\* "tob_partial": one whose stage data lack a party member;
\* "colosseum": a challenge of another type.
Challenges == {"tob", "tob_partial", "colosseum"}

SharedChallenges == {"tob", "tob_partial"}

\* challenge.type() == blert::Challenge::Tob
IsTob(ch) == ch # "colosseum"

\* stage.player_state(player) is Some for every party member and stage
HasPlayerState(ch) == ch # "tob_partial"

\* determine_roles finds an assignment
RolesResolvable(ch) == ch = "tob"

\* init_analyzer(name, implementation, config): "Ok" or the error kind
InitAnalyzer(impl, cfg) ==
    CASE impl = "GearAnalyzer"       -> "Ok"
      [] impl = "TestAnalyzer"       -> IF cfg = "ok" THEN "Ok" ELSE "Config"
      [] impl = "TestOffsetAnalyzer" -> IF cfg = "ok" THEN "Ok" ELSE "Config"
      [] impl = "TobRoleAnalyzer"    -> "Ok"
      [] OTHER                       -> "Config"

\* Context::get_dependency_output::<A>() is Some: some analyzer in the
\* run's completed map has concrete type AnalyzerRun<A>.  `done` is the set
\* of implementations of the completed analyzers.
GetDependencyOutput(impl, done) == impl \in done

\* The analyzer types whose output analyze() asks the context for
RequestedOutputs(impl, ch) ==
    CASE impl = "TobRoleAnalyzer"    -> IF IsTob(ch) THEN {"GearAnalyzer"} ELSE {}
      [] impl = "TestOffsetAnalyzer" -> {"TestAnalyzer"}
      [] OTHER                       -> {}

\* Analyzer::analyze of each implementation: "Ok" or the error kind
Analyze(impl, ch, done) ==
    CASE impl = "TestAnalyzer"       -> "Ok"
      [] impl = "TestOffsetAnalyzer" -> "Ok"
      [] impl = "GearAnalyzer"       ->
            IF HasPlayerState(ch) THEN "Ok" ELSE "IncompleteData"
      [] impl = "TobRoleAnalyzer"    ->
            IF ~IsTob(ch) THEN "FailedPrecondition"
            ELSE IF ~GetDependencyOutput("GearAnalyzer", done) THEN "Dependency"
            ELSE IF RolesResolvable(ch) THEN "Ok"
            ELSE "IncompleteData"

(***************************************************************************)
(* State.                                                                  *)
(***************************************************************************)
VARIABLES
    directory,        \* the files of the program directory
    engine,           \* "absent" | "loaded" | "load_failed" | "dropped"
    programs,         \* Engine.programs: program name -> file, or NoProgram
    dispatch_tx,      \* Engine.dispatch_tx: "None" | "Some" | "Dropped"
    workers,          \* Engine.workers.len(): worker tasks spawned
    idle,             \* live workers awaiting dispatch_rx.recv()
    running,          \* requests held by live workers
    queue,            \* the dispatch queue (async_channel, unbounded)
    num_programs_run, \* Engine.num_programs_run
    api,              \* the last call of the engine's public surface
    runs,             \* run number -> ProgramRun
    notify,           \* run number -> the run's notify channel
    overflow_checks,  \* the build's overflow-checks setting (debug or release)
    stage_data,       \* the ChallengeEvents given to StageInfo::new
    events,           \* StageInfo.events: StageEvents
    pc,               \* where the replay builder stands
    index,            \* build_player_state: position in the party
    tick,             \* build_player_state: the tick under reconstruction
    todo,             \* events of this tick not yet visited
    deltas,           \* equipment deltas of the current PlayerUpdate not yet applied
    state_this_tick,  \* build_player_state: the state under reconstruction
    state_by_tick,    \* build_player_state: the current player's states
    player_state,     \* StageInfo.player_state: username -> states
    stage_info,       \* what StageInfo::new returned
    challenge_status, \* the status column of the challenge's row: Option<i16>
    status,           \* Challenge.status, or the error of Challenge::load
    challenge,        \* the Challenge and the gear output the role analyzer reads
    role_pc,          \* where TobRoleAnalyzer::analyze stands
    ctx,              \* determine_roles: the AssignmentContext
    assigned_roles,   \* determine_roles: the roles assigned so far
    role_output,      \* what TobRoleAnalyzer::analyze returned
    guards,           \* run number -> the guards out on the run's `completed` lock
    co,               \* run number -> where the coordinator stands in its loop
    body,             \* requests whose analyzer body has read its dependency
    prefers_writer    \* the platform's RwLock holds readers back for a waiting writer

engine_vars == <<directory, engine, programs, dispatch_tx, workers, idle, running,
                 queue, num_programs_run, api, runs, notify>>

replay_vars == <<overflow_checks, stage_data, events, pc, index, tick, todo,
                 deltas, state_this_tick, state_by_tick, player_state, stage_info>>

load_vars == <<challenge_status, status>>

role_vars == <<challenge, role_pc, ctx, assigned_roles, role_output>>

lock_vars == <<guards, co, body, prefers_writer>>

vars == <<engine_vars, replay_vars, load_vars, role_vars, lock_vars>>

NoProgram == "-"

RunIds == 1..(IF MaxRuns > MaxSharedRuns THEN MaxRuns ELSE MaxSharedRuns)

NoRun == [status |-> "none", program |-> NoProgram, challenge |-> "-",
          analyzers_to_run |-> 0, blocked |-> {}, pending |-> {},
          completed |-> {}, error |-> "-"]

\* The run's task has not finished: it owns a dispatch sender and notify_rx.
Alive(r) == runs[r].status \in {"spawned", "waiting"}

\* Live senders of the dispatch channel: the engine's and one per live run.
Senders == (IF dispatch_tx = "Some" THEN 1 ELSE 0)
           + Cardinality({r \in RunIds : Alive(r)})

\* Live receivers of the dispatch channel: one per live worker.
Receivers == idle + Cardinality(running)

\* async_channel closes when its last sender or its last receiver is dropped.
Closed == dispatch_tx # "None" /\ (Senders = 0 \/ Receivers = 0)

\* The implementations of the analyzers in run r's completed map
DoneImpls(r) == {Implementation(runs[r].program, n) : n \in runs[r].completed}

\* Requests of run r in the queue, in a worker or answered in notify[r]
Queued(r) == {queue[i].analyzer : i \in {j \in 1..Len(queue) : queue[j].run = r}}

Held(r) == {q.analyzer : q \in {x \in running : x.run = r}}

Answered(r) == {notify[r][i].analyzer : i \in 1..Len(notify[r])}

InFlight(r) == Queued(r) \cup Held(r) \cup Answered(r)

InitFrom(dirs) ==
    /\ directory \in dirs
    /\ engine = "absent"
    /\ programs = [p \in ProgramNames |-> NoProgram]
    /\ dispatch_tx = "None"
    /\ workers = 0
    /\ idle = 0
    /\ running = {}
    /\ queue = <<>>
    /\ num_programs_run = 0
    /\ api = [op |-> "none", program |-> NoProgram, result |-> "-"]
    /\ runs = [r \in RunIds |-> NoRun]
    /\ notify = [r \in RunIds |-> <<>>]

(***************************************************************************)
(* Engine::load_from_directory                                             *)
(***************************************************************************)
\* The tables the read_dir loop can leave: each declared name maps to one
\* of the files declaring it (the file read last wins the insert).
LoadedTables(dir) ==
    LET toml == {f \in dir : IsToml(f)}
    IN  {t \in [ProgramNames -> toml \cup {NoProgram}] :
            \A p \in ProgramNames :
                LET decl == {f \in toml : ProgramName(f) = p}
                IN  IF decl = {} THEN t[p] = NoProgram ELSE t[p] \in decl}

LoadFromDirectory ==
    /\ engine = "absent"
    /\ LET toml == {f \in directory : IsToml(f)}
       IN  IF \E f \in toml : ~Parses(f)
           THEN /\ engine' = "load_failed"
                /\ api' = [op |-> "load", program |-> NoProgram,
                           result |-> "IncompleteData"]
                /\ UNCHANGED programs
           ELSE /\ engine' = "loaded"
                /\ programs' \in LoadedTables(directory)
                /\ api' = [op |-> "load", program |-> NoProgram, result |-> "Ok"]
    /\ UNCHANGED <<directory, dispatch_tx, workers, idle, running, queue,
                   num_programs_run, runs, notify>>

(***************************************************************************)
(* Engine::start, called once per engine                                   *)
(***************************************************************************)
Start(worker_count) ==
    /\ engine = "loaded"
    /\ dispatch_tx = "None"
    /\ dispatch_tx' = "Some"
    /\ workers' = workers + worker_count
    /\ idle' = worker_count
    /\ api' = [op |-> "start", program |-> NoProgram, result |-> "Ok"]
    /\ UNCHANGED <<directory, engine, programs, running, queue,
                   num_programs_run, runs, notify>>

(***************************************************************************)
(* Engine::run_program                                                     *)
(***************************************************************************)
\* ProgramRun::new
NewRun(file, ch) ==
    [status |-> "spawned", program |-> file, challenge |-> ch,
     analyzers_to_run |-> Cardinality(AnalyzerNames(file)),
     blocked |-> {}, pending |-> {}, completed |-> {}, error |-> "-"]

\* RunProgram that counts the call before it looks at dispatch_tx
RunProgramCountsFirst(p, ch, max) ==
    /\ engine = "loaded"
    /\ IF p \notin ProgramNames \/ programs[p] = NoProgram
       THEN /\ api' = [op |-> "run_program", program |-> p,
                       result |-> "InvalidArgument"]
            /\ UNCHANGED <<num_programs_run, runs>>
       ELSE /\ num_programs_run < max
            /\ num_programs_run' = num_programs_run + 1
            /\ IF dispatch_tx = "None"
               THEN /\ api' = [op |-> "run_program", program |-> p,
                               result |-> "FailedPrecondition"]
                    /\ UNCHANGED runs
               ELSE /\ runs' = [runs EXCEPT ![num_programs_run + 1] =
                                   NewRun(programs[p], ch)]
                    /\ api' = [op |-> "run_program", program |-> p, result |-> "Ok"]
    /\ UNCHANGED <<directory, engine, programs, dispatch_tx, workers, idle,
                   running, queue, notify>>

RunProgram(p, ch, max) ==
    /\ engine = "loaded"
    /\ IF p \notin ProgramNames \/ programs[p] = NoProgram
       THEN /\ api' = [op |-> "run_program", program |-> p,
                       result |-> "InvalidArgument"]
            /\ UNCHANGED <<num_programs_run, runs>>
       ELSE IF dispatch_tx = "None"
       THEN /\ api' = [op |-> "run_program", program |-> p,
                       result |-> "FailedPrecondition"]
            /\ UNCHANGED <<num_programs_run, runs>>
       ELSE /\ num_programs_run < max
            /\ num_programs_run' = num_programs_run + 1
            /\ runs' = [runs EXCEPT ![num_programs_run + 1] = NewRun(programs[p], ch)]
            /\ api' = [op |-> "run_program", program |-> p, result |-> "Ok"]
    /\ UNCHANGED <<directory, engine, programs, dispatch_tx, workers, idle,
                   running, queue, notify>>

(***************************************************************************)
(* Dropping the engine: its dispatch sender goes, the worker tasks are     *)
(* detached and keep running.                                              *)
(***************************************************************************)
DropEngine ==
    /\ engine = "loaded"
    /\ engine' = "dropped"
    /\ dispatch_tx' = IF dispatch_tx = "Some" THEN "Dropped" ELSE dispatch_tx
    /\ api' = [op |-> "drop", program |-> NoProgram, result |-> "Ok"]
    /\ UNCHANGED <<directory, programs, workers, idle, running, queue,
                   num_programs_run, runs, notify>>

(***************************************************************************)
(* ProgramRun: the coordinator of one run                                  *)
(***************************************************************************)
\* Runnable with `any` in place of `all`: one completed dependency suffices
RunnableAny(deps, done) == deps = {} \/ deps \cap done # {}

\* unblock_analyzers, the test of one blocked analyzer: every declared
\* dependency is a key of `completed`
Runnable(deps, done) == deps \subseteq done

\* UnblockAnalyzers whose filter_map forgets the insert into pending
UnblockAnalyzersLost(run) ==
    LET ready == {n \in run.blocked :
                    Runnable(Dependencies(run.program, n), run.completed)}
    IN  [run EXCEPT !.blocked = @ \ ready]

\* UnblockAnalyzers whose filter_map does not remove from blocked
UnblockAnalyzersKeepsBlocked(run) ==
    LET ready == {n \in run.blocked :
                    Runnable(Dependencies(run.program, n), run.completed)}
    IN  [run EXCEPT !.pending = @ \cup ready]

\* unblock_analyzers: the runnable analyzers move from blocked to pending
UnblockAnalyzers(run) ==
    LET ready == {n \in run.blocked :
                    Runnable(Dependencies(run.program, n), run.completed)}
    IN  [run EXCEPT !.blocked = @ \ ready, !.pending = @ \cup ready]

\* HandleCompleted that forgets the insert
HandleCompletedForgetsInsert(run, n) == UnblockAnalyzers(run)

\* handle_completed: insert into completed, then unblock
HandleCompleted(run, n) ==
    UnblockAnalyzers([run EXCEPT !.completed = @ \cup {n}])

\* ScheduleAllPending whose sends succeed on a closed channel too
ScheduleAllPendingUnchecked(run, closed) ==
    IF run.pending = {}
    THEN [run |-> run, sent |-> <<>>]
    ELSE [run |-> [run EXCEPT !.pending = {}], sent |-> Sorted(run.pending)]

\* schedule_all_pending: pending is taken and each analyzer sent to the
\* dispatch queue in name order; a send on a closed channel fails the run.
\* The sends never suspend (the queue is unbounded), so they are one step.
ScheduleAllPending(run, closed) ==
    IF run.pending = {}
    THEN [run |-> run, sent |-> <<>>]
    ELSE IF closed
    THEN [run |-> [run EXCEPT !.pending = {}, !.status = "failed",
                              !.error = "FailedPrecondition"],
          sent |-> <<>>]
    ELSE [run |-> [run EXCEPT !.pending = {}], sent |-> Sorted(run.pending)]

\* The loop condition of ProgramRun::run: Ok(()) once nothing is left to run
LoopOrFinish(run) ==
    IF run.analyzers_to_run > 0
    THEN [run EXCEPT !.status = "waiting"]
    ELSE [run EXCEPT !.status = "success"]

\* FailRun that reports a fixed error instead of the one it was given
FailRunOtherError(run, e) == [run EXCEPT !.status = "failed", !.error = "IncompleteData"]

\* The response of a failed analyzer: log and return the error
FailRun(run, e) == [run EXCEPT !.status = "failed", !.error = e]

Requests(r, names) == [i \in 1..Len(names) |-> [run |-> r, analyzer |-> names[i]]]

\* ProgramRun::run up to its first await of notify_rx: initialize_analyzers
\* and the first schedule_all_pending
RunBegin(r) ==
    /\ runs[r].status = "spawned"
    /\ LET run  == runs[r]
           file == run.program
           bad  == {n \in AnalyzerNames(file) :
                      InitAnalyzer(Analyzers(file)[n].implementation,
                                   Analyzers(file)[n].config) # "Ok"}
       IN  IF bad # {}
           THEN \* try_for_each stops at the first failure; the HashMap is
                \* iterated in no fixed order
                /\ \E built \in SUBSET (AnalyzerNames(file) \ bad) :
                      runs' = [runs EXCEPT ![r] =
                                  FailRun([run EXCEPT !.blocked = built], "Config")]
                /\ UNCHANGED queue
           ELSE LET init == UnblockAnalyzers([run EXCEPT !.blocked = AnalyzerNames(file)])
                    s    == ScheduleAllPending(init, Closed)
                IN  /\ runs' = [runs EXCEPT ![r] =
                                  IF s.run.status = "failed" THEN s.run
                                  ELSE LoopOrFinish(s.run)]
                    /\ queue' = queue \o Requests(r, s.sent)
    /\ UNCHANGED <<directory, engine, programs, dispatch_tx, workers, idle,
                   running, num_programs_run, api, notify>>

\* One iteration of the loop of ProgramRun::run: a response is received,
\* an error fails the run, a success is handled, the newly pending
\* analyzers are scheduled and the counter is decremented.
RunLoop(r) ==
    /\ runs[r].status = "waiting"
    /\ notify[r] # <<>>
    /\ LET run  == runs[r]
           resp == Head(notify[r])
       IN  IF resp.result # "Ok"
           THEN /\ runs' = [runs EXCEPT ![r] = FailRun(run, resp.result)]
                /\ UNCHANGED queue
           ELSE LET s == ScheduleAllPending(HandleCompleted(run, resp.analyzer), Closed)
                IN  /\ runs' = [runs EXCEPT ![r] =
                                  IF s.run.status = "failed" THEN s.run
                                  ELSE LoopOrFinish(
                                         [s.run EXCEPT !.analyzers_to_run = @ - 1])]
                    /\ queue' = queue \o Requests(r, s.sent)
    /\ notify' = [notify EXCEPT ![r] = Tail(@)]
    /\ UNCHANGED <<directory, engine, programs, dispatch_tx, workers, idle,
                   running, num_programs_run, api>>

(***************************************************************************)
(* Worker::run                                                             *)
(***************************************************************************)
\* dispatch_rx.recv() returns a request
WorkerRecv ==
    /\ idle > 0
    /\ queue # <<>>
    /\ idle' = idle - 1
    /\ running' = running \cup {Head(queue)}
    /\ queue' = Tail(queue)
    /\ UNCHANGED <<directory, engine, programs, dispatch_tx, workers,
                   num_programs_run, api, runs, notify>>

\* The worker holding `req` runs the analyzer and sends the response on the
\* request's notify_tx; the send waits while the channel is full, and its
\* unwrap panics the worker task when the run has dropped notify_rx.
WorkerRun(req) ==
    /\ req \in running
    /\ LET r      == req.run
           impl   == Implementation(runs[r].program, req.analyzer)
           result == Analyze(impl, runs[r].challenge, DoneImpls(r))
       IN  IF Alive(r)
           THEN /\ Len(notify[r]) < NotifyCapacity
                /\ notify' = [notify EXCEPT ![r] =
                                Append(@, [analyzer |-> req.analyzer, result |-> result])]
                /\ idle' = idle + 1
           ELSE /\ UNCHANGED <<notify, idle>>
    /\ running' = running \ {req}
    /\ UNCHANGED <<directory, engine, programs, dispatch_tx, workers, queue,
                   num_programs_run, api, runs>>

\* dispatch_rx.recv() fails: the channel is closed and drained
WorkerExit ==
    /\ idle > 0
    /\ queue = <<>>
    /\ Closed
    /\ idle' = idle - 1
    /\ UNCHANGED <<directory, engine, programs, dispatch_tx, workers, running,
                   queue, num_programs_run, api, runs, notify>>

(***************************************************************************)
(* The lock of a run's `completed` map (src/src/analysis.rs): the steps of *)
(* the coordinator loop and of an analyzer body, one lock operation each.  *)
(***************************************************************************)
\* The holder of a guard: the run's coordinator, or the worker that runs
\* the named analyzer
Coordinator == "coordinator"

ReadGuard(holder) == <<"read", holder>>

WriteGuard(holder) == <<"write", holder>>

\* RwLock::write returns once no guard is out
CanWrite(r) == guards[r] = {}

\* RwLock::read returns once no write guard is out; whether it also waits
\* for a writer that is waiting depends on the platform's lock
CanRead(r) ==
    /\ \A g \in guards[r] : g[1] # "write"
    /\ prefers_writer => co[r].pc # "write"

\* The coordinator between two iterations
AtRecv == [pc |-> "recv", analyzer |-> "-"]

\* No lock is in use
LockIdle ==
    /\ guards = [r \in RunIds |-> {}]
    /\ co = [r \in RunIds |-> AtRecv]
    /\ body = {}
    /\ prefers_writer = FALSE

\* The locks of the runs to come, on a platform of one of the policies
LockInitFrom(policies) ==
    /\ guards = [r \in RunIds |-> {}]
    /\ co = [r \in RunIds |-> AtRecv]
    /\ body = {}
    /\ prefers_writer \in policies

\* notify_rx.recv() returns a response: an error fails the run, a success
\* goes on to handle_completed
CoordinatorRecv(r) ==
    /\ runs[r].status = "waiting"
    /\ co[r].pc = "recv"
    /\ notify[r] # <<>>
    /\ LET resp == Head(notify[r])
       IN IF resp.result # "Ok"
          THEN /\ runs' = [runs EXCEPT ![r] = FailRun(@, resp.result)]
               /\ UNCHANGED co
          ELSE /\ co' = [co EXCEPT ![r] = [pc |-> "write", analyzer |-> resp.analyzer]]
               /\ UNCHANGED runs
    /\ notify' = [notify EXCEPT ![r] = Tail(@)]
    /\ UNCHANGED <<directory, engine, programs, dispatch_tx, workers, idle,
                   running, queue, num_programs_run, api, guards, body,
                   prefers_writer>>

\* handle_completed: self.completed.write()
CoordinatorWrite(r) ==
    /\ co[r].pc = "write"
    /\ CanWrite(r)
    /\ guards' = [guards EXCEPT ![r] = @ \cup {WriteGuard(Coordinator)}]
    /\ co' = [co EXCEPT ![r].pc = "insert"]
    /\ UNCHANGED <<engine_vars, body, prefers_writer>>

\* An insert whose guard stays out after the statement
CoordinatorInsertKeepsGuard(r) ==
    /\ co[r].pc = "insert"
    /\ runs' = [runs EXCEPT ![r].completed = @ \cup {co[r].analyzer}]
    /\ co' = [co EXCEPT ![r].pc = "read"]
    /\ UNCHANGED <<directory, engine, programs, dispatch_tx, workers, idle,
                   running, queue, num_programs_run, api, notify, guards, body,
                   prefers_writer>>

\* handle_completed: .insert(name, analyzer); the guard is a temporary and
\* is dropped with the statement
CoordinatorInsert(r) ==
    /\ co[r].pc = "insert"
    /\ runs' = [runs EXCEPT ![r].completed = @ \cup {co[r].analyzer}]
    /\ guards' = [guards EXCEPT ![r] = @ \ {WriteGuard(Coordinator)}]
    /\ co' = [co EXCEPT ![r].pc = "read"]
    /\ UNCHANGED <<directory, engine, programs, dispatch_tx, workers, idle,
                   running, queue, num_programs_run, api, notify, body,
                   prefers_writer>>

\* unblock_analyzers: let completed = self.completed.read()
CoordinatorRead(r) ==
    /\ co[r].pc = "read"
    /\ CanRead(r)
    /\ guards' = [guards EXCEPT ![r] = @ \cup {ReadGuard(Coordinator)}]
    /\ co' = [co EXCEPT ![r].pc = "unblock"]
    /\ UNCHANGED <<engine_vars, body, prefers_writer>>

\* unblock_analyzers: the filter_map, and the guard dropped at the return
CoordinatorUnblock(r) ==
    /\ co[r].pc = "unblock"
    /\ runs' = [runs EXCEPT ![r] = UnblockAnalyzers(@)]
    /\ guards' = [guards EXCEPT ![r] = @ \ {ReadGuard(Coordinator)}]
    /\ co' = [co EXCEPT ![r].pc = "send"]
    /\ UNCHANGED <<directory, engine, programs, dispatch_tx, workers, idle,
                   running, queue, num_programs_run, api, notify, body,
                   prefers_writer>>

\* schedule_all_pending, the decrement and the loop condition
CoordinatorSend(r) ==
    /\ co[r].pc = "send"
    /\ LET s == ScheduleAllPending(runs[r], Closed)
       IN /\ runs' = [runs EXCEPT ![r] =
                         IF s.run.status = "failed" THEN s.run
                         ELSE LoopOrFinish([s.run EXCEPT !.analyzers_to_run = @ - 1])]
          /\ queue' = queue \o Requests(r, s.sent)
    /\ co' = [co EXCEPT ![r] = AtRecv]
    /\ UNCHANGED <<directory, engine, programs, dispatch_tx, workers, idle,
                   running, num_programs_run, api, notify, guards, body,
                   prefers_writer>>

\* The body of the analyzer of `req` asks the context for an output
Reads(req) ==
    RequestedOutputs(Implementation(runs[req.run].program, req.analyzer),
                     runs[req.run].challenge) # {}

\* get_dependency_output: self.completed_analyzers.read()
BodyRead(req) ==
    /\ req \in running
    /\ req \notin body
    /\ Reads(req)
    /\ ReadGuard(req.analyzer) \notin guards[req.run]
    /\ CanRead(req.run)
    /\ guards' = [guards EXCEPT ![req.run] = @ \cup {ReadGuard(req.analyzer)}]
    /\ UNCHANGED <<engine_vars, co, body, prefers_writer>>

\* get_dependency_output: the find_map over the values, and the guard
\* dropped at the return
BodyFind(req) ==
    /\ req \in running
    /\ ReadGuard(req.analyzer) \in guards[req.run]
    /\ guards' = [guards EXCEPT ![req.run] = @ \ {ReadGuard(req.analyzer)}]
    /\ body' = body \cup {req}
    /\ UNCHANGED <<engine_vars, co, prefers_writer>>

\* The rest of Worker::run for `req`: the body returns and the response is
\* sent
BodyReturn(req) ==
    /\ req \in running
    /\ req \in body \/ ~Reads(req)
    /\ ReadGuard(req.analyzer) \notin guards[req.run]
    /\ WorkerRun(req)
    /\ body' = body \ {req}
    /\ UNCHANGED <<guards, co, prefers_writer>>

(***************************************************************************)
(* Item deltas (src/src/challenge.rs, ItemDelta).  A packed u64 is written *)
(* as its four 16-bit words, most significant first: <<w3, w2, w1, w0>>    *)
(* stands for w3 * 2^48 + w2 * 2^32 + w1 * 2^16 + w0.                      *)
(***************************************************************************)
\* The values of one 16-bit word of a u64: 0 .. WORD - 1
WORD == 65536

U64(w3, w2, w1, w0) == <<w3, w2, w1, w0>>

\* const SLOT_MASK: u64 = 0x1f
SLOT_MASK == 31

\* const ID_MASK: u64 = 0xffff
ID_MASK == 65535

\* const ADDED_BIT: u64 = 1 << 31, which is bit 15 of w1
ADDED_BIT == 32768

\* i32::MAX, the largest quantity an ItemQuantity(i32, i32) holds
I32_MAX == 2147483647

\* raw_delta >> Self::SLOT_SHIFT & Self::SLOT_MASK: the low five bits of w3
SlotField(raw_delta) == raw_delta[1] % (SLOT_MASK + 1)

\* An id mask of 0xff
IdFieldLowByte(raw_delta) == raw_delta[2] % 256

\* raw_delta >> Self::ID_SHIFT & Self::ID_MASK: w2
IdField(raw_delta) == raw_delta[2] % (ID_MASK + 1)

\* A quantity mask of 0xffff
QuantityFieldLowWord(raw_delta) == raw_delta[4]

\* raw_delta & Self::QUANTITY_MASK: bits 0..30, w1 without its top bit, and w0
QuantityField(raw_delta) == (raw_delta[3] % ADDED_BIT) * WORD + raw_delta[4]

\* raw_delta & Self::ADDED_BIT != 0
AddedFlag(raw_delta) == (raw_delta[3] \div ADDED_BIT) % 2 = 1

\* EquipmentSlot::try_from(u64): Head = 0 .. Ring = 10, an error otherwise
EquipmentSlotTryFrom(value) == value \in 0..10

\* ItemDelta::parse
ItemDeltaParse(raw_delta) ==
    IF ~EquipmentSlotTryFrom(SlotField(raw_delta))
    THEN [ok |-> FALSE, error |-> "Invalid slot"]
    ELSE [ok |-> TRUE,
          kind |-> IF AddedFlag(raw_delta) THEN "Add" ELSE "Remove",
          slot |-> SlotField(raw_delta),
          id |-> IdField(raw_delta),
          quantity |-> QuantityField(raw_delta)]

\* i32 addition of a quantity: `item.1 += quantity` overflows when the sum
\* exceeds i32::MAX (quantity is never negative)
AddOverflows(a, b) == b > 0 /\ a > I32_MAX - b

\* the sum as a build without overflow checks computes it (two's complement)
WrappingAdd(a, b) ==
    IF AddOverflows(a, b) THEN (a - (I32_MAX - b) - 1) + (-I32_MAX - 1) ELSE a + b

\* An equipment slot holds ItemQuantity(id, quantity) or None
NoItem == <<>>

ItemQuantity(id, quantity) == <<id, quantity>>

\* PlayerState::equipment, Default::default(): eleven empty slots
NoEquipment == [slot \in 0..10 |-> NoItem]

\* A Remove that clears the slot only when the quantity is below qty
ApplyEquipmentDeltaKeepsEmptyStack(equipment, delta) ==
    LET item == equipment[delta.slot] IN
    IF delta.kind = "Add"
    THEN IF item # NoItem /\ item[1] = delta.id
         THEN [equipment EXCEPT ![delta.slot] =
                   ItemQuantity(item[1], WrappingAdd(item[2], delta.quantity))]
         ELSE [equipment EXCEPT ![delta.slot] = ItemQuantity(delta.id, delta.quantity)]
    ELSE IF item # NoItem /\ item[1] = delta.id
         THEN IF item[2] < delta.quantity
              THEN [equipment EXCEPT ![delta.slot] = NoItem]
              ELSE [equipment EXCEPT ![delta.slot] =
                        ItemQuantity(item[1], item[2] - delta.quantity)]
         ELSE [equipment EXCEPT ![delta.slot] = NoItem]

\* PlayerState::apply_equipment_delta
ApplyEquipmentDelta(equipment, delta) ==
    LET item == equipment[delta.slot] IN
    IF delta.kind = "Add"
    THEN IF item # NoItem /\ item[1] = delta.id
         THEN [equipment EXCEPT ![delta.slot] =
                   ItemQuantity(item[1], WrappingAdd(item[2], delta.quantity))]
         ELSE [equipment EXCEPT ![delta.slot] = ItemQuantity(delta.id, delta.quantity)]
    ELSE IF item # NoItem /\ item[1] = delta.id
         THEN IF item[2] <= delta.quantity
              THEN [equipment EXCEPT ![delta.slot] = NoItem]
              ELSE [equipment EXCEPT ![delta.slot] =
                        ItemQuantity(item[1], item[2] - delta.quantity)]
         ELSE [equipment EXCEPT ![delta.slot] = NoItem]

\* `item.1 += quantity` panics in a build with overflow checks
DeltaOverflows(equipment, delta) ==
    /\ delta.kind = "Add"
    /\ equipment[delta.slot] # NoItem
    /\ equipment[delta.slot][1] = delta.id
    /\ AddOverflows(equipment[delta.slot][2], delta.quantity)

(***************************************************************************)
(* Events of a stage and the states reconstructed from them                *)
(* (src/src/challenge.rs, StageInfo)                                       *)
(***************************************************************************)
\* The seven skills of PlayerStats and of blert::event::Player
Skills == {"attack", "defence", "strength", "hitpoints", "ranged", "prayer", "magic"}

\* Option<T>: None, or Some(v)
None == <<>>

Some(v) == <<v>>

\* PlayerStats::default(), and a Player message that supplies no skill
NoStats == [skill \in Skills |-> None]

\* A u32 written as its two 16-bit words, most significant first
U32(w1, w0) == <<w1, w0>>

\* `as i16` of a 16-bit word
AsI16(w) == IF w >= ADDED_BIT THEN w - WORD ELSE w

\* SkillLevel::from_raw
SkillLevelFromRaw(raw) == [base |-> AsI16(raw[2]), current |-> AsI16(raw[1])]

\* blert::Coords
Coords(x, y) == [x |-> x, y |-> y]

\* PrayerSet::empty() and PrayerSet::from_raw: the raw u64
PrayerSetEmpty == U64(0, 0, 0, 0)

PrayerSetFromRaw(raw) == raw

\* blert::Event, as far as the builder reads it; the event is at (0, 0) and
\* its player supplies no skill and no prayer
Event(t, type, has_player, party_index, off_cooldown_tick, equipment_deltas) ==
    [tick |-> t, type |-> type, has_player |-> has_player,
     party_index |-> party_index, off_cooldown_tick |-> off_cooldown_tick,
     equipment_deltas |-> equipment_deltas,
     x_coord |-> 0, y_coord |-> 0, skills |-> NoStats,
     active_prayers |-> U64(0, 0, 0, 0)]

\* is_player_event
IsPlayerEvent(e) == e.type \in {"PlayerAttack", "PlayerDeath", "PlayerUpdate"}

\* events.sort_by(|a, b| a.tick.cmp(&b.tick)): a stable sort
RECURSIVE SortByTick(_)
SortByTick(evs) ==
    IF evs = <<>> THEN <<>>
    ELSE LET least == CHOOSE t \in {evs[i].tick : i \in 1..Len(evs)} :
                          \A i \in 1..Len(evs) : t <= evs[i].tick
             first == CHOOSE i \in 1..Len(evs) :
                          evs[i].tick = least /\ \A j \in 1..(i - 1) : evs[j].tick # least
         IN <<evs[first]>> \o
            SortByTick([i \in 1..(Len(evs) - 1) |-> IF i < first THEN evs[i] ELSE evs[i + 1]])

\* The loop of StageInfo::new that fills tick_indices: the 0-based index of
\* the first event of each tick, or -1.
RECURSIVE IndexEvents(_, _, _, _)
IndexEvents(all, i, previous_tick, tick_indices) ==
    IF i > Len(all) THEN tick_indices
    ELSE IF all[i].tick # previous_tick
         THEN IndexEvents(all, i + 1, all[i].tick,
                          [tick_indices EXCEPT ![all[i].tick] = i - 1])
         ELSE IndexEvents(all, i + 1, previous_tick, tick_indices)

\* StageInfo::new up to the call of build_player_state: the StageEvents
StageEvents(evs) ==
    LET all == SortByTick(evs)
        last_tick == IF all = <<>> THEN 0 ELSE all[Len(all)].tick
    IN [total_ticks |-> last_tick,
        all |-> all,
        tick_indices |-> IndexEvents(all, 1, -1, [t \in 0..last_tick |-> -1])]

NoEvents == [total_ticks |-> 0, all |-> <<>>, tick_indices |-> [t \in 0..0 |-> -1]]

\* `-1 as usize` is 2^64 - 1, larger than any index: the model's largest integer
AsUsize(i) == IF i < 0 THEN I32_MAX ELSE i

\* StageEvents::for_tick: the slice all[start_index..end_index], or a panic
\* when an index is out of range
ForTick(ev, t) ==
    IF t \notin DOMAIN ev.tick_indices THEN [panic |-> TRUE, events |-> <<>>]
    ELSE IF ev.tick_indices[t] < 0 THEN [panic |-> FALSE, events |-> <<>>]
    ELSE LET start_index == ev.tick_indices[t] IN
         IF t <= ev.total_ticks /\ (t + 1) \notin DOMAIN ev.tick_indices
         THEN [panic |-> TRUE, events |-> <<>>]
         ELSE LET end_index == IF t > ev.total_ticks THEN Len(ev.all)
                               ELSE AsUsize(ev.tick_indices[t + 1])
              IN IF end_index > Len(ev.all) \/ start_index > end_index
                 THEN [panic |-> TRUE, events |-> <<>>]
                 ELSE [panic |-> FALSE,
                       events |-> [i \in 1..(end_index - start_index) |->
                                       ev.all[start_index + i]]]

\* AttackState
Idle == [kind |-> "Idle", ticks |-> 0]

Attacked == [kind |-> "Attacked", ticks |-> 0]

OnCooldown(ticks) == [kind |-> "OnCooldown", ticks |-> ticks]

\* A slot of state_by_tick that holds None
NoState == [none |-> TRUE]

\* The PlayerState a player starts the stage with (last_known_state is None)
FirstState(t) ==
    [tick |-> t, attack_state |-> Idle, death_state |-> "Alive",
     position |-> Coords(0, 0), stats |-> NoStats, prayers |-> PrayerSetEmpty,
     equipment |-> NoEquipment]

\* A countdown that goes on to OnCooldown(0)
NextTickCountsToZero(self) ==
    [tick |-> self.tick + 1,
     attack_state |-> IF self.attack_state.kind = "OnCooldown"
                      THEN OnCooldown(self.attack_state.ticks - 1)
                      ELSE Idle,
     death_state |-> IF self.death_state = "JustDied" THEN "Dead" ELSE "Alive",
     position |-> self.position,
     stats |-> NoStats,
     prayers |-> self.prayers,
     equipment |-> self.equipment]

\* A death that is forgotten on the next tick
NextTickForgetsDeath(self) ==
    [tick |-> self.tick + 1,
     attack_state |-> IF self.attack_state.kind = "OnCooldown"
                      THEN IF self.attack_state.ticks = 1 THEN Idle
                           ELSE OnCooldown(self.attack_state.ticks - 1)
                      ELSE Idle,
     death_state |-> "Alive",
     position |-> self.position,
     stats |-> NoStats,
     prayers |-> self.prayers,
     equipment |-> self.equipment]

\* A next tick that keeps the stats of the tick before
NextTickKeepsStats(self) ==
    [tick |-> self.tick + 1,
     attack_state |-> IF self.attack_state.kind = "OnCooldown"
                      THEN IF self.attack_state.ticks = 1 THEN Idle
                           ELSE OnCooldown(self.attack_state.ticks - 1)
                      ELSE Idle,
     death_state |-> IF self.death_state = "JustDied" THEN "Dead" ELSE "Alive",
     position |-> self.position,
     stats |-> self.stats,
     prayers |-> self.prayers,
     equipment |-> self.equipment]

\* PlayerState::next_tick
NextTick(self) ==
    [tick |-> self.tick + 1,
     attack_state |-> IF self.attack_state.kind = "OnCooldown"
                      THEN IF self.attack_state.ticks = 1 THEN Idle
                           ELSE OnCooldown(self.attack_state.ticks - 1)
                      ELSE Idle,
     death_state |-> IF self.death_state = "JustDied" THEN "Dead" ELSE "Alive",
     position |-> self.position,
     stats |-> NoStats,
     prayers |-> self.prayers,
     equipment |-> self.equipment]

\* The filter of build_player_state: player events that carry the player at
\* position i of the party
Selected(e, i) == IsPlayerEvent(e) /\ e.has_player /\ e.party_index = i

\* A cooldown set when off_cooldown_tick is the tick itself
UpdateAttackStateAtOrAfter(attack_state, off_cooldown_tick, t) ==
    IF attack_state = Idle /\ off_cooldown_tick >= t
    THEN OnCooldown(off_cooldown_tick - t)
    ELSE attack_state

\* The attack state after a PlayerUpdate at tick t
UpdateAttackState(attack_state, off_cooldown_tick, t) ==
    IF attack_state = Idle /\ off_cooldown_tick > t
    THEN OnCooldown(off_cooldown_tick - t)
    ELSE attack_state

\* PlayerState::apply_stats: the skills the player message supplies
ApplyStats(stats, skills) ==
    [skill \in Skills |->
        IF skills[skill] # None THEN Some(SkillLevelFromRaw(skills[skill][1]))
        ELSE stats[skill]]

\* What the match on the event's type does to state_this_tick, before the
\* event's equipment deltas
ApplyPlayerEvent(state, e, t) ==
    CASE e.type = "PlayerAttack" -> [state EXCEPT !.attack_state = Attacked]
      [] e.type = "PlayerDeath" -> [state EXCEPT !.death_state = "JustDied"]
      [] e.type = "PlayerUpdate" ->
             [state EXCEPT !.attack_state =
                               UpdateAttackState(@, e.off_cooldown_tick, t),
                           !.position = Coords(e.x_coord, e.y_coord),
                           !.stats = ApplyStats(@, e.skills),
                           !.prayers = PrayerSetFromRaw(e.active_prayers)]

\* Results of StageInfo::new
NoResult == [kind |-> "none"]

Ok == [kind |-> "Ok"]

Panic == [kind |-> "Panic"]

InvalidField(username, t) ==
    [kind |-> "InvalidField", username |-> username, tick |-> t]

Username(i) == stage_data.party_names[i + 1]

\* The builder at rest, with nothing to build
ReplayIdle ==
    /\ overflow_checks = FALSE
    /\ stage_data = [party_names |-> <<>>, events |-> <<>>]
    /\ events = NoEvents
    /\ pc = "idle"
    /\ index = 0
    /\ tick = 0
    /\ todo = <<>>
    /\ deltas = <<>>
    /\ state_this_tick = NoState
    /\ state_by_tick = <<>>
    /\ player_state = <<>>
    /\ stage_info = NoResult

\* A stage handed to StageInfo::new
ReplayInitFrom(stages, checks) ==
    /\ overflow_checks \in checks
    /\ stage_data \in stages
    /\ events = NoEvents
    /\ pc = "new"
    /\ index = 0
    /\ tick = 0
    /\ todo = <<>>
    /\ deltas = <<>>
    /\ state_this_tick = NoState
    /\ state_by_tick = <<>>
    /\ player_state = <<>>
    /\ stage_info = NoResult

\* StageInfo::new: sort, index, then build_player_state
StageInfoNew ==
    /\ pc = "new"
    /\ events' = StageEvents(stage_data.events)
    /\ index' = 0
    /\ player_state' = <<>>
    /\ pc' = "player"
    /\ UNCHANGED <<overflow_checks, stage_data, tick, todo, deltas,
                   state_this_tick, state_by_tick, stage_info>>

\* A state vector with a slot for the last tick, which the loop never fills
BeginPlayerExtraSlot ==
    /\ pc = "player"
    /\ IF index < Len(stage_data.party_names)
       THEN /\ state_by_tick' = [t \in 1..(events.total_ticks + 1) |-> NoState]
            /\ tick' = 0
            /\ pc' = "tick"
            /\ UNCHANGED stage_info
       ELSE /\ stage_info' = Ok
            /\ pc' = "done"
            /\ UNCHANGED <<state_by_tick, tick>>
    /\ UNCHANGED <<overflow_checks, stage_data, events, index, todo, deltas,
                   state_this_tick, player_state>>

\* for (index, username) in party.iter().enumerate(), and Ok(player_state)
\* after the last player
BeginPlayer ==
    /\ pc = "player"
    /\ IF index < Len(stage_data.party_names)
       THEN /\ state_by_tick' = [t \in 1..events.total_ticks |-> NoState]
            /\ tick' = 0
            /\ pc' = "tick"
            /\ UNCHANGED stage_info
       ELSE /\ stage_info' = Ok
            /\ pc' = "done"
            /\ UNCHANGED <<state_by_tick, tick>>
    /\ UNCHANGED <<overflow_checks, stage_data, events, index, todo, deltas,
                   state_this_tick, player_state>>

\* for tick in 0..events.total_ticks: the state the tick starts from and the
\* tick's events; after the last tick, player_state.insert
BeginTick ==
    /\ pc = "tick"
    /\ IF tick < events.total_ticks
       THEN /\ state_this_tick' = IF tick = 0 THEN FirstState(tick)
                                  ELSE NextTick(state_by_tick[tick])
            /\ IF ForTick(events, tick).panic
               THEN /\ stage_info' = Panic
                    /\ pc' = "done"
                    /\ UNCHANGED todo
               ELSE /\ todo' = ForTick(events, tick).events
                    /\ pc' = "event"
                    /\ UNCHANGED stage_info
            /\ UNCHANGED <<player_state, index>>
       ELSE /\ player_state' = [u \in DOMAIN player_state \cup {Username(index)} |->
                                    IF u = Username(index) THEN state_by_tick
                                    ELSE player_state[u]]
            /\ index' = index + 1
            /\ pc' = "player"
            /\ UNCHANGED <<state_this_tick, todo, stage_info>>
    /\ UNCHANGED <<overflow_checks, stage_data, events, tick, deltas, state_by_tick>>

\* One event of the tick: skipped by the filter, or matched on its type
ApplyEvent ==
    /\ pc = "event"
    /\ todo # <<>>
    /\ todo' = Tail(todo)
    /\ IF Selected(Head(todo), index)
       THEN /\ state_this_tick' = ApplyPlayerEvent(state_this_tick, Head(todo), tick)
            /\ IF Head(todo).type = "PlayerUpdate"
               THEN deltas' = Head(todo).equipment_deltas /\ pc' = "delta"
               ELSE UNCHANGED <<deltas, pc>>
       ELSE UNCHANGED <<state_this_tick, deltas, pc>>
    /\ UNCHANGED <<overflow_checks, stage_data, events, index, tick,
                   state_by_tick, player_state, stage_info>>

\* One equipment delta of a PlayerUpdate: parsed and applied, or the error
\* that ends build_player_state
ApplyDelta ==
    /\ pc = "delta"
    /\ IF deltas = <<>>
       THEN /\ pc' = "event"
            /\ UNCHANGED <<deltas, state_this_tick, stage_info>>
       ELSE LET delta == ItemDeltaParse(Head(deltas)) IN
            IF ~delta.ok
            THEN /\ stage_info' = InvalidField(Username(index), tick)
                 /\ pc' = "done"
                 /\ UNCHANGED <<deltas, state_this_tick>>
            ELSE IF overflow_checks /\ DeltaOverflows(state_this_tick.equipment, delta)
            THEN /\ stage_info' = Panic
                 /\ pc' = "done"
                 /\ UNCHANGED <<deltas, state_this_tick>>
            ELSE /\ state_this_tick' =
                        [state_this_tick EXCEPT !.equipment =
                             ApplyEquipmentDelta(@, delta)]
                 /\ deltas' = Tail(deltas)
                 /\ UNCHANGED <<pc, stage_info>>
    /\ UNCHANGED <<overflow_checks, stage_data, events, index, tick, todo,
                   state_by_tick, player_state>>

\* state_by_tick[tick] = Some(state_this_tick), once the tick's events are done
EndTick ==
    /\ pc = "event"
    /\ todo = <<>>
    /\ state_by_tick' = [state_by_tick EXCEPT ![tick + 1] = state_this_tick]
    /\ tick' = tick + 1
    /\ pc' = "tick"
    /\ UNCHANGED <<overflow_checks, stage_data, events, index, todo, deltas,
                   state_this_tick, player_state, stage_info>>


(***************************************************************************)
(* The status of a challenge (src/src/challenge.rs, Status)                *)
(***************************************************************************)
I16_MIN == -32768

I16_MAX == 32767

\* The variants of Status
Statuses == {"InProgress", "Completed", "Reset", "Wiped"}

\* `status as i16`: the discriminants the enum declares
StatusAsI16(s) ==
    CASE s = "InProgress" -> 0
      [] s = "Completed" -> 1
      [] s = "Reset" -> 2
      [] s = "Wiped" -> 3

StatusOk(s) == [kind |-> "Ok", value |-> s]

\* Error::InvalidField("status")
InvalidFieldStatus == [kind |-> "InvalidField", field |-> "status"]

\* A decoding that also accepts 4
StatusTryFromAcceptsFour(value) ==
    CASE value = 0 -> StatusOk("InProgress")
      [] value = 1 -> StatusOk("Completed")
      [] value = 2 -> StatusOk("Wiped")
      [] value \in {3, 4} -> StatusOk("Reset")
      [] OTHER -> InvalidFieldStatus

\* impl TryFrom<i16> for Status
StatusTryFrom(value) ==
    CASE value = 0 -> StatusOk("InProgress")
      [] value = 1 -> StatusOk("Completed")
      [] value = 2 -> StatusOk("Wiped")
      [] value = 3 -> StatusOk("Reset")
      [] OTHER -> InvalidFieldStatus

\* No challenge is being loaded
LoadIdle ==
    /\ challenge_status = None
    /\ status = [kind |-> "idle"]

\* A row of the challenges table handed to Challenge::load
LoadInitFrom(columns) ==
    /\ challenge_status \in columns
    /\ status = NoResult

\* Challenge::load, the status field:
\* challenge.status.ok_or(InvalidField("status")).and_then(Status::try_from)
ChallengeLoad ==
    /\ status = NoResult
    /\ status' = IF challenge_status = None THEN InvalidFieldStatus
                 ELSE StatusTryFrom(challenge_status[1])
    /\ UNCHANGED challenge_status

(***************************************************************************)
(* The role analyzer (src/src/analyzers/tob_role_analyzer.rs)              *)
(***************************************************************************)
\* Role, in the order of the enum
RoleOrder == <<"Solo", "DuoMage", "DuoRanger", "Mage", "Ranger", "Melee", "MeleeFreeze">>

Roles == {RoleOrder[i] : i \in 1..Len(RoleOrder)}

MELEE_4T_THRESHOLD == 12

\* What the matchers and the heuristics read about one player: attacks on the
\* Maiden's adds, attacks at the Nylocas, and the gear analyzer's output
NoEvidence ==
    [maiden_barraged |-> FALSE, maiden_chinned |-> FALSE, maiden_dinhs |-> FALSE,
     nylo_barraged |-> FALSE, nylo_chinned |-> FALSE,
     num_swifts |-> 0, num_4t_melees |-> 0, num_pipes |-> 0,
     melee_weapon |-> FALSE, dinhs_bulwark |-> FALSE, paint_cannon |-> FALSE,
     void |-> FALSE, ranged_gear |-> FALSE]

\* A Challenge as the analyzer reads it, and whether the context holds the
\* output of the GearAnalyzer
Challenge(type, mode, stage, party, gear) ==
    [type |-> type, mode |-> mode, stage |-> stage, party |-> party, gear |-> gear]

\* Challenge::scale
Scale(ch) == Len(ch.party)

\* Candidate roles with a second mage in place of the melee freezer
RolesToAssignNoMeleeFreeze(scale) ==
    CASE scale = 2 -> <<"DuoMage", "DuoRanger">>
      [] scale = 3 -> <<"Mage", "Ranger", "Melee">>
      [] scale = 4 -> <<"Mage", "Mage", "Ranger", "Melee">>
      [] scale = 5 -> <<"Mage", "Mage", "Ranger", "Melee", "Melee">>

\* The match on challenge.scale() of determine_roles, for scales 2 to 5
RolesToAssign(scale) ==
    CASE scale = 2 -> <<"DuoMage", "DuoRanger">>
      [] scale = 3 -> <<"Mage", "Ranger", "Melee">>
      [] scale = 4 -> <<"Mage", "MeleeFreeze", "Ranger", "Melee">>
      [] scale = 5 -> <<"Mage", "Mage", "Ranger", "Melee", "Melee">>

\* A matcher that takes every challenge for a hard-mode one
TryMatchRolePreNyloAlwaysHard(role, mode, scale, p) ==
    LET has_barraged == p.maiden_barraged
        has_chinned == p.maiden_chinned
        has_melee_weapon == p.melee_weapon
        has_dinhs == p.maiden_dinhs \/ p.dinhs_bulwark
    IN CASE role = "DuoMage" ->
                IF has_barraged \/ has_melee_weapon THEN "Strong" ELSE "None"
         [] role = "DuoRanger" ->
                IF has_chinned THEN "Strong"
                ELSE IF ~has_barraged THEN "Weak" ELSE "None"
         [] role = "Mage" ->
                IF has_barraged
                THEN IF has_chinned \/ scale = 5 THEN "Strong"
                     ELSE IF ~has_melee_weapon THEN "Weak" ELSE "None"
                ELSE "None"
         [] role = "Ranger" ->
                IF has_chinned /\ ~has_barraged THEN "Weak" ELSE "None"
         [] role = "Melee" ->
                IF has_dinhs \/ (has_melee_weapon /\ ~has_barraged) THEN "Strong"
                ELSE IF has_melee_weapon /\ has_barraged THEN "Weak"
                ELSE "None"
         [] role = "MeleeFreeze" ->
                IF has_barraged /\ has_melee_weapon THEN "Strong" ELSE "None"
         [] role = "Solo" -> "Strong"

\* try_match_role_pre_nylo
TryMatchRolePreNylo(role, mode, scale, p) ==
    LET has_barraged == p.maiden_barraged
        has_chinned == p.maiden_chinned
        has_melee_weapon == p.melee_weapon
        has_dinhs == p.maiden_dinhs \/ p.dinhs_bulwark
        is_hmt == mode = "TobHard"
    IN CASE role = "DuoMage" ->
                IF has_barraged \/ has_melee_weapon THEN "Strong" ELSE "None"
         [] role = "DuoRanger" ->
                IF has_chinned THEN "Strong"
                ELSE IF ~has_barraged THEN "Weak" ELSE "None"
         [] role = "Mage" ->
                IF has_barraged
                THEN IF has_chinned \/ (scale = 3 /\ ~is_hmt) \/ scale = 5 THEN "Strong"
                     ELSE IF ~has_melee_weapon THEN "Weak" ELSE "None"
                ELSE "None"
         [] role = "Ranger" ->
                IF has_chinned /\ ~has_barraged THEN "Weak" ELSE "None"
         [] role = "Melee" ->
                IF has_dinhs \/ (has_melee_weapon /\ ~has_barraged) THEN "Strong"
                ELSE IF is_hmt /\ has_melee_weapon /\ has_barraged THEN "Weak"
                ELSE "None"
         [] role = "MeleeFreeze" ->
                IF has_barraged /\ has_melee_weapon THEN "Strong" ELSE "None"
         [] role = "Solo" -> "Strong"

\* try_match_role_nylo
TryMatchRoleNylo(role, mode, scale, p) ==
    LET has_barraged == p.nylo_barraged
        has_chinned == p.nylo_chinned
        has_meleed == p.num_swifts > 1 \/ p.num_4t_melees > MELEE_4T_THRESHOLD
        has_paint_cannon == p.paint_cannon
    IN CASE role = "Solo" -> "Strong"
         [] role = "DuoMage" ->
                IF has_barraged \/ has_meleed THEN "Strong" ELSE "None"
         [] role = "DuoRanger" ->
                IF p.num_pipes > 30 THEN "Strong"
                ELSE IF ~has_meleed THEN "Weak" ELSE "None"
         [] role = "Mage" ->
                IF has_barraged THEN (IF scale = 4 THEN "Weak" ELSE "Strong")
                ELSE "None"
         [] role = "MeleeFreeze" ->
                IF scale = 4 /\ has_barraged
                THEN IF has_meleed THEN "Strong"
                     ELSE IF has_paint_cannon THEN "Weak" ELSE "None"
                ELSE "None"
         [] role = "Ranger" ->
                IF has_chinned THEN "Strong"
                ELSE IF p.num_pipes > 20 THEN "Weak" ELSE "None"
         [] role = "Melee" ->
                IF has_meleed \/ has_paint_cannon THEN "Weak" ELSE "None"

\* The matcher find_role_matches selects from the stage the challenge reached
MatchFn(ch, role, p) ==
    IF ch.stage \in {"TobMaiden", "TobBloat"}
    THEN TryMatchRolePreNylo(role, ch.mode, Scale(ch), p)
    ELSE TryMatchRoleNylo(role, ch.mode, Scale(ch), p)

\* AssignmentContext; players are positions of the party
NewContext(roles_to_assign) ==
    [roles_to_assign |-> roles_to_assign,
     unassigned_players |-> <<>>,
     strong_matches |-> [r \in Roles |-> <<>>],
     weak_matches |-> [r \in Roles |-> <<>>],
     players_not_matching_any_role |-> <<>>]

\* A removal that drops the last element whatever the index
SwapRemoveDropsLast(s, i) == SubSeq(s, 1, Len(s) - 1)

\* Vec::swap_remove at the 1-based index i
SwapRemove(s, i) == [k \in 1..(Len(s) - 1) |-> IF k = i THEN s[Len(s)] ELSE s[k]]

\* How often x occurs in the sequence s
Count(s, x) == Cardinality({k \in 1..Len(s) : s[k] = x})

\* Vec::contains
Contains(s, x) == \E k \in 1..Len(s) : s[k] = x

\* One pass of the try_for_each of find_role_matches, for one player
MatchPlayer(ch, c, player) ==
    LET p == ch.party[player]
        roles == c.roles_to_assign
        strong == {i \in 1..Len(roles) : MatchFn(ch, roles[i], p) = "Strong"}
    IN IF strong # {}
       THEN LET i == CHOOSE i \in strong : \A j \in strong : i <= j
            IN [c EXCEPT !.strong_matches[roles[i]] = Append(@, player),
                         !.roles_to_assign = SwapRemove(roles, i)]
       ELSE LET IsWeak(r) == MatchFn(ch, r, p) = "Weak"
                player_weak_matches == SelectSeq(roles, IsWeak)
            IN [c EXCEPT
                   !.players_not_matching_any_role =
                       IF player_weak_matches = <<>> THEN Append(@, player) ELSE @,
                   !.weak_matches =
                       [r \in Roles |->
                           @[r] \o [k \in 1..Count(player_weak_matches, r) |-> player]],
                   !.unassigned_players =
                       Append(@, <<player, Len(player_weak_matches)>>)]

RECURSIVE MatchPlayers(_, _, _)
MatchPlayers(ch, c, player) ==
    IF player > Scale(ch) THEN c
    ELSE MatchPlayers(ch, MatchPlayer(ch, c, player), player + 1)

\* The players left in the order of the party
SortByWeakMatchesForgotten(unassigned, count) == unassigned

\* sort_by_key(|(_, weak_matches)| Reverse(*weak_matches)): a stable sort,
\* most weak matches first
RECURSIVE SortByWeakMatches(_, _)
SortByWeakMatches(unassigned, count) ==
    IF count < 0 THEN <<>>
    ELSE LET Has(u) == u[2] = count
         IN SelectSeq(unassigned, Has) \o SortByWeakMatches(unassigned, count - 1)

\* PrimaryRole
PrimaryRole(player, role) == <<player, role>>

\* The players of strong_matches with their roles (lines 178-186)
RECURSIVE StrongRoles(_, _)
StrongRoles(c, i) ==
    IF i > Len(RoleOrder) THEN <<>>
    ELSE [k \in 1..Len(c.strong_matches[RoleOrder[i]]) |->
              PrimaryRole(c.strong_matches[RoleOrder[i]][k], RoleOrder[i])]
         \o StrongRoles(c, i + 1)

\* try_guess_unmatched_roles, the 4-scale rule: a lone weak mage next to a
\* strong mage is the melee freezer
GuessMeleeFreeze(ch, c) ==
    IF /\ Scale(ch) = 4
       /\ c.strong_matches["Mage"] # <<>>
       /\ Len(c.weak_matches["Mage"]) = 1
    THEN LET player == c.weak_matches["Mage"][1]
             Other(u) == u[1] # player
             NotMeleeFreeze(role) == role # "MeleeFreeze"
         IN [ctx |-> [c EXCEPT !.unassigned_players = SelectSeq(@, Other),
                               !.roles_to_assign = SelectSeq(@, NotMeleeFreeze)],
             assigned_roles |-> <<PrimaryRole(player, "MeleeFreeze")>>]
    ELSE [ctx |-> c, assigned_roles |-> <<>>]

\* try_guess_unmatched_roles: the context it leaves and the roles it returns
TryGuessUnmatchedRoles(ch, c0) ==
    LET g == GuessMeleeFreeze(ch, c0)
        c == g.ctx
        unmatched == c.players_not_matching_any_role
    IN IF Len(unmatched) # 2 THEN g
       ELSE IF Scale(ch) \in {3, 4}
       THEN LET with_void == {i \in 1..2 : ch.party[unmatched[i]].void}
            IN IF Cardinality(with_void) # 1 THEN g
               ELSE LET i == CHOOSE i \in with_void : TRUE
                        potential_ranger == unmatched[i]
                        potential_melee == unmatched[3 - i]
                        Others(u) == u[1] # potential_ranger /\ u[1] # potential_melee
                        NotGuessed(role) == role # "Ranger" /\ role # "Melee"
                    IN IF ch.party[potential_melee].ranged_gear
                       THEN [ctx |-> [c EXCEPT
                                 !.unassigned_players = SelectSeq(@, Others),
                                 !.roles_to_assign = SelectSeq(@, NotGuessed),
                                 !.players_not_matching_any_role = <<>>],
                             assigned_roles |-> g.assigned_roles \o
                                 <<PrimaryRole(potential_ranger, "Ranger"),
                                   PrimaryRole(potential_melee, "Melee")>>]
                       ELSE g
       ELSE IF Scale(ch) = 5
       THEN IF c.strong_matches["Ranger"] # <<>> \/ c.weak_matches["Ranger"] # <<>>
            THEN LET Others(u) == ~Contains(unmatched, u[1])
                     NotMelee(role) == role # "Melee"
                 IN [ctx |-> [c EXCEPT
                         !.unassigned_players = SelectSeq(@, Others),
                         !.roles_to_assign = SelectSeq(@, NotMelee),
                         !.players_not_matching_any_role = <<>>],
                     assigned_roles |-> g.assigned_roles \o
                         <<PrimaryRole(unmatched[1], "Melee"),
                           PrimaryRole(unmatched[2], "Melee")>>]
            ELSE g
       ELSE g

\* slice.swap(0, i), at the 1-based index i
SwapFirst(s, i) ==
    [k \in 1..Len(s) |-> IF k = 1 THEN s[i] ELSE IF k = i THEN s[1] ELSE s[k]]

\* try_assign_roles: Some(roles) or None, and the slice roles_to_assign as
\* the call leaves it
RECURSIVE TryAssignRoles(_, _, _, _)
RECURSIVE TryAssignFrom(_, _, _, _, _)
TryAssignRoles(roles_to_assign, roles_assigned, unassigned_players, weak_matches) ==
    IF roles_to_assign = <<>>
    THEN [some |-> TRUE, roles |-> roles_assigned, roles_to_assign |-> <<>>]
    ELSE LET player == unassigned_players[Len(roles_assigned) + 1][1]
         IN IF Len(roles_to_assign) = 1
            THEN [some |-> TRUE,
                  roles |-> Append(roles_assigned,
                                   PrimaryRole(player, roles_to_assign[1])),
                  roles_to_assign |-> roles_to_assign]
            ELSE TryAssignFrom(1, roles_to_assign, roles_assigned,
                               unassigned_players, weak_matches)

\* A loop that leaves a role it tried at the front of the slice
TryAssignFromKeepsSwap(i, roles_to_assign, roles_assigned, unassigned_players, weak_matches) ==
    IF i > Len(roles_to_assign)
    THEN [some |-> FALSE, roles |-> <<>>, roles_to_assign |-> roles_to_assign]
    ELSE LET player == unassigned_players[Len(roles_assigned) + 1][1]
             role == roles_to_assign[i]
         IN IF ~Contains(weak_matches[role], player)
            THEN TryAssignFrom(i + 1, roles_to_assign, roles_assigned,
                               unassigned_players, weak_matches)
            ELSE LET swapped == SwapFirst(roles_to_assign, i)
                     assigned ==
                         TryAssignRoles(Tail(swapped),
                                        Append(roles_assigned, PrimaryRole(player, role)),
                                        unassigned_players, weak_matches)
                 IN IF assigned.some
                    THEN [assigned EXCEPT !.roles_to_assign = <<swapped[1]>> \o @]
                    ELSE TryAssignFrom(i + 1, <<swapped[1]>> \o assigned.roles_to_assign,
                                       roles_assigned, unassigned_players, weak_matches)

\* The loop of try_assign_roles from the 1-based index i on: a role the
\* player matches is swapped to the front, the rest of the slice is searched
\* and, on failure, the role is swapped back
TryAssignFrom(i, roles_to_assign, roles_assigned, unassigned_players, weak_matches) ==
    IF i > Len(roles_to_assign)
    THEN [some |-> FALSE, roles |-> <<>>, roles_to_assign |-> roles_to_assign]
    ELSE LET player == unassigned_players[Len(roles_assigned) + 1][1]
             role == roles_to_assign[i]
         IN IF ~Contains(weak_matches[role], player)
            THEN TryAssignFrom(i + 1, roles_to_assign, roles_assigned,
                               unassigned_players, weak_matches)
            ELSE LET swapped == SwapFirst(roles_to_assign, i)
                     assigned ==
                         TryAssignRoles(Tail(swapped),
                                        Append(roles_assigned, PrimaryRole(player, role)),
                                        unassigned_players, weak_matches)
                 IN IF assigned.some
                    THEN [assigned EXCEPT !.roles_to_assign = <<swapped[1]>> \o @]
                    ELSE TryAssignFrom(i + 1,
                                       SwapFirst(<<swapped[1]>> \o assigned.roles_to_assign, i),
                                       roles_assigned, unassigned_players, weak_matches)

\* player_roles.extend(assigned_roles): the role of each player, the last
\* entry of a player winning
PlayerRoles(assigned) ==
    [player \in {assigned[k][1] : k \in 1..Len(assigned)} |->
        LET last == CHOOSE k \in 1..Len(assigned) :
                        /\ assigned[k][1] = player
                        /\ \A j \in (k + 1)..Len(assigned) : assigned[j][1] # player
        IN assigned[last][2]]

\* Results of TobRoleAnalyzer::analyze
OkRoles(player_roles) == [kind |-> "Ok", roles |-> player_roles]

FailedPrecondition(detail) == [kind |-> "FailedPrecondition", detail |-> detail]

DependencyError(name) == [kind |-> "Dependency", name |-> name]

IncompleteData == [kind |-> "IncompleteData"]

\* The analyzer at rest
RoleIdle ==
    /\ challenge = Challenge("Tob", "TobRegular", "TobMaiden", <<>>, FALSE)
    /\ role_pc = "idle"
    /\ ctx = NewContext(<<>>)
    /\ assigned_roles = <<>>
    /\ role_output = NoResult

\* A challenge handed to the analyzer
RoleInitFrom(challenges) ==
    /\ challenge \in challenges
    /\ role_pc = "analyze"
    /\ ctx = NewContext(<<>>)
    /\ assigned_roles = <<>>
    /\ role_output = NoResult

\* analyze, and determine_roles up to its AssignmentContext
TobRoleAnalyze ==
    /\ role_pc = "analyze"
    /\ IF challenge.type # "Tob"
       THEN /\ role_output' = FailedPrecondition("TobRoleAnalyzer requires a TOB challenge")
            /\ role_pc' = "done"
            /\ UNCHANGED ctx
       ELSE IF ~challenge.gear
       THEN /\ role_output' = DependencyError("GearAnalyzer")
            /\ role_pc' = "done"
            /\ UNCHANGED ctx
       ELSE IF Scale(challenge) = 1
       THEN /\ role_output' = OkRoles([player \in {1} |-> "Solo"])
            /\ role_pc' = "done"
            /\ UNCHANGED ctx
       ELSE IF Scale(challenge) \notin 2..5
       THEN /\ role_output' = FailedPrecondition("Invalid raid scale")
            /\ role_pc' = "done"
            /\ UNCHANGED ctx
       ELSE /\ ctx' = NewContext(RolesToAssign(Scale(challenge)))
            /\ role_pc' = "find_role_matches"
            /\ UNCHANGED role_output
    /\ UNCHANGED <<challenge, assigned_roles>>

\* find_role_matches: every player against the roles left, then the sort
FindRoleMatches ==
    /\ role_pc = "find_role_matches"
    /\ ctx' = LET c == MatchPlayers(challenge, ctx, 1)
              IN [c EXCEPT !.unassigned_players =
                               SortByWeakMatches(@, Len(ctx.roles_to_assign))]
    /\ role_pc' = "try_guess_unmatched_roles"
    /\ UNCHANGED <<challenge, assigned_roles, role_output>>

\* determine_roles from the strong matches to its assert_eq: the guesses,
\* IncompleteData when two players match no role, a panic when the roles
\* left and the players left differ in number
GuessUnmatchedRoles ==
    /\ role_pc = "try_guess_unmatched_roles"
    /\ LET g == TryGuessUnmatchedRoles(challenge, ctx)
       IN /\ ctx' = g.ctx
          /\ assigned_roles' = StrongRoles(ctx, 1) \o g.assigned_roles
          /\ IF Len(g.ctx.players_not_matching_any_role) > 1
             THEN role_output' = IncompleteData /\ role_pc' = "done"
             ELSE IF Len(g.ctx.roles_to_assign) # Len(g.ctx.unassigned_players)
             THEN role_output' = Panic /\ role_pc' = "done"
             ELSE role_pc' = "try_assign_roles" /\ UNCHANGED role_output
    /\ UNCHANGED challenge

\* determine_roles from try_assign_roles to its result
AssignRoles ==
    /\ role_pc = "try_assign_roles"
    /\ LET roles == TryAssignRoles(ctx.roles_to_assign, <<>>,
                                   ctx.unassigned_players, ctx.weak_matches)
       IN IF roles.some
          THEN LET player_roles == PlayerRoles(assigned_roles \o roles.roles)
               IN /\ assigned_roles' = assigned_roles \o roles.roles
                  /\ role_output' =
                         IF Cardinality(DOMAIN player_roles) = Scale(challenge)
                         THEN OkRoles(player_roles)
                         ELSE IncompleteData
          ELSE /\ role_output' = IncompleteData
               /\ UNCHANGED assigned_roles
    /\ ctx' = [ctx EXCEPT !.roles_to_assign =
                   TryAssignRoles(ctx.roles_to_assign, <<>>, ctx.unassigned_players,
                                  ctx.weak_matches).roles_to_assign]
    /\ role_pc' = "done"
    /\ UNCHANGED challenge

(***************************************************************************)
(* Inputs of the replay builder                                            *)
(***************************************************************************)
\* Every list of at most n elements of S
Lists(S, n) == UNION {[1..k -> S] : k \in 0..n}

\* A delta whose slot bits are 31, and one that adds a helmet
MalformedDelta == U64(31, 1, ADDED_BIT, 1)

HelmetDelta == U64(0, 1, ADDED_BIT, 1)

PlayerAttack(t, i) == Event(t, "PlayerAttack", TRUE, i, 0, <<>>)

PlayerDeath(t, i) == Event(t, "PlayerDeath", TRUE, i, 0, <<>>)

PlayerUpdate(t, i, off_cooldown_tick, equipment_deltas) ==
    Event(t, "PlayerUpdate", TRUE, i, off_cooldown_tick, equipment_deltas)

NpcSpawn(t) == Event(t, "NpcSpawn", FALSE, 0, 0, <<>>)

\* Stages of a party of two: deaths, updates with a malformed delta, events
\* of no player, at ticks 0 to 2 in any order
ReplayEvents ==
    UNION {{PlayerDeath(t, 0),
            PlayerUpdate(t, 0, 0, <<HelmetDelta, MalformedDelta>>),
            PlayerUpdate(t, 1, 0, <<MalformedDelta>>),
            NpcSpawn(t)} : t \in 0..2}

ReplayStages ==
    {[party_names |-> <<"alice", "bob">>, events |-> evs] :
        evs \in Lists(ReplayEvents, MaxEvents)}

\* Stages of one player: attacks, deaths and updates whose off_cooldown_tick
\* is the tick itself, one tick later or two ticks later
CombatEvents ==
    {PlayerAttack(0, 0), PlayerDeath(0, 0), PlayerUpdate(0, 0, 0, <<>>),
     PlayerUpdate(0, 0, 1, <<>>), PlayerUpdate(0, 0, 2, <<HelmetDelta>>),
     PlayerAttack(1, 0), PlayerDeath(1, 0), PlayerUpdate(1, 0, 1, <<>>),
     PlayerUpdate(1, 0, 3, <<MalformedDelta>>),
     PlayerDeath(2, 0), NpcSpawn(2)}

CombatStages ==
    {[party_names |-> <<"alice">>, events |-> evs] :
        evs \in Lists(CombatEvents, MaxEvents)}

\* Deltas of the head and ammo slots: adds and removes of two items, of
\* quantity 1 or i32::MAX
EquipmentDeltas ==
    {U64(0, id, added + w1, w0) :
        id \in {1, 2}, added \in {0, ADDED_BIT},
        w1 \in {0}, w0 \in {1}}
    \cup {U64(0, id, added + (ADDED_BIT - 1), WORD - 1) :
        id \in {1, 2}, added \in {0, ADDED_BIT}}
    \cup {U64(3, 1, ADDED_BIT, 1)}

\* Packed values of every shape: slot bits in and out of range, bits 53..63
\* set or clear, the extreme ids and quantities
PackedValues ==
    {U64(w3, w2, w1, w0) :
        w3 \in {0, 3, 10, 11, 31, 35, 65514, 65535},
        w2 \in {0, 11222, 65535},
        w1 \in {0, 32767, 32768, 65535},
        w0 \in {0, 1, 15, 29069, 65535}}

\* Stages of one player whose first update carries the deltas; the event of
\* tick 1 makes tick 0 part of the stage
DeltaStages ==
    {[party_names |-> <<"alice">>,
      events |-> <<PlayerUpdate(0, 0, 0, ds), NpcSpawn(1)>>] :
        ds \in Lists(EquipmentDeltas, MaxDeltas) \cup {<<p>> : p \in PackedValues}}

\* The position, skills and prayers a PlayerUpdate event carries
WithPlayerData(e, x, y, skills, active_prayers) ==
    [e EXCEPT !.x_coord = x, !.y_coord = y, !.skills = skills,
              !.active_prayers = active_prayers]

\* A boosted hitpoints level, and an attack level whose high word is not an
\* i16
HitpointsOnly == [NoStats EXCEPT !.hitpoints = Some(U32(121, 99))]

AttackAndMagic ==
    [NoStats EXCEPT !.attack = Some(U32(WORD - 1, 99)), !.magic = Some(U32(0, 1))]

\* What a tick of a stage of two players may hold: an event of no player
\* and an update of the other player, an attack, a death, an update that
\* starts a cooldown of two or of three ticks, or a death followed by an
\* update
TickAlphabet(t) ==
    { <<NpcSpawn(t),
        WithPlayerData(PlayerUpdate(t, 1, t + 1, <<HelmetDelta>>), 7, 8,
                       HitpointsOnly, U64(0, 0, 0, 2))>>,
      <<PlayerAttack(t, 0)>>,
      <<PlayerDeath(t, 0)>>,
      <<WithPlayerData(PlayerUpdate(t, 0, t + 2, <<>>), 1, 2, HitpointsOnly,
                       U64(0, 0, 0, 1))>>,
      <<WithPlayerData(PlayerUpdate(t, 0, t + 3, <<HelmetDelta>>), 3, 4,
                       AttackAndMagic, U64(0, 0, 4, 0))>>,
      <<PlayerDeath(t, 0),
        WithPlayerData(PlayerUpdate(t, 0, 0, <<>>), 5, 6, NoStats, U64(0, 0, 0, 0))>> }

\* The events of ticks t to MaxTicks, tick by tick; the last tick holds one
\* event of no player
RECURSIVE TickEvents(_)
TickEvents(t) ==
    IF t >= MaxTicks THEN {<<NpcSpawn(t)>>}
    ELSE {a \o rest : a \in TickAlphabet(t), rest \in TickEvents(t + 1)}

TickStages ==
    {[party_names |-> <<"alice", "bob">>, events |-> evs] : evs \in TickEvents(0)}

(***************************************************************************)
(* Inputs of the role analyzer                                             *)
(***************************************************************************)
\* Players by what they did and wore: a mage, a mage who also chinned, a
\* melee freezer, a ranger, a meleer with Dinh's bulwark, and two players
\* who attacked no add, one in Void and one in Masori
Barrager == [NoEvidence EXCEPT !.maiden_barraged = TRUE, !.nylo_barraged = TRUE]

ChinMage ==
    [NoEvidence EXCEPT !.maiden_barraged = TRUE, !.maiden_chinned = TRUE,
                       !.nylo_barraged = TRUE]

MeleeFreezer ==
    [NoEvidence EXCEPT !.maiden_barraged = TRUE, !.melee_weapon = TRUE,
                       !.nylo_barraged = TRUE, !.num_swifts = 2]

Chinner ==
    [NoEvidence EXCEPT !.maiden_chinned = TRUE, !.nylo_chinned = TRUE, !.void = TRUE]

Dinhs == [NoEvidence EXCEPT !.dinhs_bulwark = TRUE, !.num_4t_melees = 13]

Voider == [NoEvidence EXCEPT !.void = TRUE, !.num_pipes = 21]

Masori == [NoEvidence EXCEPT !.ranged_gear = TRUE, !.paint_cannon = TRUE]

Profiles == {Barrager, ChinMage, MeleeFreezer, Chinner, Dinhs, Voider, Masori}

\* Theatre of Blood challenges of 2 to 5 players in regular and in hard mode
\* that ended at the Maiden or reached the Nylocas, with the gear output
TobChallenges ==
    {Challenge("Tob", ms[1], ms[2], party, TRUE) :
        ms \in {<<"TobRegular", "TobMaiden">>, <<"TobHard", "TobMaiden">>,
                <<"TobRegular", "TobNylocas">>},
        party \in UNION {[1..n -> Profiles] : n \in 2..5}}

\* Challenges of no player, of one player and of six, challenges of another
\* type, and contexts without the gear output
OtherChallenges ==
    {Challenge(type, "TobRegular", "TobMaiden", [i \in 1..n |-> Voider], gear) :
        type \in {"Tob", "Colosseum"}, n \in {0, 1, 3, 6}, gear \in BOOLEAN}

RoleChallenges == TobChallenges \cup OtherChallenges

(***************************************************************************)
(* Specifications                                                          *)
(***************************************************************************)
\* Every step of the engine, its runs and its workers; `names`, `chs` and
\* `max` bound the calls of run_program.
Step(names, chs, max) ==
    \/ LoadFromDirectory /\ UNCHANGED <<replay_vars, load_vars, role_vars, lock_vars>>
    \/ (\E n \in 0..MaxWorkers : Start(n)) /\ UNCHANGED <<replay_vars, load_vars, role_vars, lock_vars>>
    \/ (\E p \in names, ch \in chs : RunProgram(p, ch, max)) /\ UNCHANGED <<replay_vars, load_vars, role_vars, lock_vars>>
    \/ DropEngine /\ UNCHANGED <<replay_vars, load_vars, role_vars, lock_vars>>
    \/ (\E r \in RunIds : RunBegin(r)) /\ UNCHANGED <<replay_vars, load_vars, role_vars, lock_vars>>
    \/ (\E r \in RunIds : RunLoop(r)) /\ UNCHANGED <<replay_vars, load_vars, role_vars, lock_vars>>
    \/ WorkerRecv /\ UNCHANGED <<replay_vars, load_vars, role_vars, lock_vars>>
    \/ (\E req \in running : WorkerRun(req)) /\ UNCHANGED <<replay_vars, load_vars, role_vars, lock_vars>>
    \/ WorkerExit /\ UNCHANGED <<replay_vars, load_vars, role_vars, lock_vars>>

Init == InitFrom(Directories) /\ ReplayIdle /\ LoadIdle /\ RoleIdle /\ LockIdle

Next == Step(RequestedNames, Challenges, MaxRuns)

Spec == Init /\ [][Next]_vars

\* Runs of the two-analyzer programs sharing one worker pool.
SharedInit == InitFrom(SharedDirectories) /\ ReplayIdle /\ LoadIdle /\ RoleIdle /\ LockIdle

SharedNext == Step(SharedNames, SharedChallenges, MaxSharedRuns)

SharedSpec == SharedInit /\ [][SharedNext]_vars

\* tokio schedules every task that is ready: the coordinator of each run
\* and each worker take the steps they can take.
Fairness ==
    /\ \A r \in RunIds : /\ WF_vars(RunBegin(r) /\ UNCHANGED <<replay_vars, load_vars, role_vars, lock_vars>>)
                          /\ WF_vars(RunLoop(r) /\ UNCHANGED <<replay_vars, load_vars, role_vars, lock_vars>>)
    /\ WF_vars(WorkerRecv /\ UNCHANGED <<replay_vars, load_vars, role_vars, lock_vars>>)
    /\ WF_vars((\E req \in running : WorkerRun(req)) /\ UNCHANGED <<replay_vars, load_vars, role_vars, lock_vars>>)
    /\ WF_vars(WorkerExit /\ UNCHANGED <<replay_vars, load_vars, role_vars, lock_vars>>)

FairSpec == Init /\ [][Next]_vars /\ Fairness

\* Every step of the replay builder
ReplayNext ==
    \/ StageInfoNew /\ UNCHANGED <<engine_vars, load_vars, role_vars, lock_vars>>
    \/ BeginPlayer /\ UNCHANGED <<engine_vars, load_vars, role_vars, lock_vars>>
    \/ BeginTick /\ UNCHANGED <<engine_vars, load_vars, role_vars, lock_vars>>
    \/ ApplyEvent /\ UNCHANGED <<engine_vars, load_vars, role_vars, lock_vars>>
    \/ ApplyDelta /\ UNCHANGED <<engine_vars, load_vars, role_vars, lock_vars>>
    \/ EndTick /\ UNCHANGED <<engine_vars, load_vars, role_vars, lock_vars>>

\* The reconstruction of a stage of two players
ReplayInit == InitFrom({{}}) /\ ReplayInitFrom(ReplayStages, {FALSE}) /\ LoadIdle /\ RoleIdle /\ LockIdle

ReplaySpec == ReplayInit /\ [][ReplayNext]_vars

\* The reconstruction of one player's attack and death states
CombatInit == InitFrom({{}}) /\ ReplayInitFrom(CombatStages, {FALSE}) /\ LoadIdle /\ RoleIdle /\ LockIdle

CombatNext == ReplayNext

CombatSpec == CombatInit /\ [][CombatNext]_vars

\* The reconstruction of one player's equipment, in a build with and in a
\* build without overflow checks
DeltaInit == InitFrom({{}}) /\ ReplayInitFrom(DeltaStages, BOOLEAN) /\ LoadIdle /\ RoleIdle /\ LockIdle

DeltaNext == ReplayNext

DeltaSpec == DeltaInit /\ [][DeltaNext]_vars

\* Challenge::load on every value the status column can hold
StatusColumns == {None} \cup {Some(v) : v \in I16_MIN..I16_MAX}

StatusInit ==
    InitFrom({{}}) /\ ReplayIdle /\ LoadInitFrom(StatusColumns) /\ RoleIdle
    /\ LockIdle

StatusNext == ChallengeLoad /\ UNCHANGED <<engine_vars, replay_vars, role_vars, lock_vars>>

StatusSpec == StatusInit /\ [][StatusNext]_vars

\* TobRoleAnalyzer::analyze on every challenge of RoleChallenges
RoleInit ==
    InitFrom({{}}) /\ ReplayIdle /\ LoadIdle /\ RoleInitFrom(RoleChallenges)
    /\ LockIdle

RoleNext ==
    \/ TobRoleAnalyze /\ UNCHANGED <<engine_vars, replay_vars, load_vars, lock_vars>>
    \/ FindRoleMatches /\ UNCHANGED <<engine_vars, replay_vars, load_vars, lock_vars>>
    \/ GuessUnmatchedRoles /\ UNCHANGED <<engine_vars, replay_vars, load_vars, lock_vars>>
    \/ AssignRoles /\ UNCHANGED <<engine_vars, replay_vars, load_vars, lock_vars>>

RoleSpec == RoleInit /\ [][RoleNext]_vars


\* The reconstruction of a stage of MaxTicks ticks with events at every tick
TickInit == InitFrom({{}}) /\ ReplayInitFrom(TickStages, {FALSE}) /\ LoadIdle /\ RoleIdle /\ LockIdle

TickNext == ReplayNext

TickSpec == TickInit /\ [][TickNext]_vars

\* Runs of a three-analyzer and of a two-analyzer program, with each
\* operation on the lock of `completed` a step of its own
LockDirectories == { {"dag.toml", "tob.toml"} }

LockNames == {"dag", "tob"}

LockInit ==
    /\ InitFrom(LockDirectories) /\ ReplayIdle /\ LoadIdle /\ RoleIdle
    /\ LockInitFrom(BOOLEAN)

\* The caller starts a run when the run before it is over: each run has a
\* lock of its own, and runs do not meet at one
Quiet == running = {} /\ \A r \in RunIds : ~Alive(r)

LockNext ==
    \/ LoadFromDirectory /\ UNCHANGED <<replay_vars, load_vars, role_vars, lock_vars>>
    \/ (\E n \in 0..MaxWorkers : Start(n))
           /\ UNCHANGED <<replay_vars, load_vars, role_vars, lock_vars>>
    \/ (\E p \in LockNames, ch \in Challenges : RunProgram(p, ch, MaxRuns))
           /\ Quiet
           /\ UNCHANGED <<replay_vars, load_vars, role_vars, lock_vars>>
    \/ DropEngine /\ UNCHANGED <<replay_vars, load_vars, role_vars, lock_vars>>
    \/ (\E r \in RunIds : RunBegin(r))
           /\ UNCHANGED <<replay_vars, load_vars, role_vars, lock_vars>>
    \/ (\E r \in RunIds : CoordinatorRecv(r)) /\ UNCHANGED <<replay_vars, load_vars, role_vars>>
    \/ (\E r \in RunIds : CoordinatorWrite(r)) /\ UNCHANGED <<replay_vars, load_vars, role_vars>>
    \/ (\E r \in RunIds : CoordinatorInsert(r)) /\ UNCHANGED <<replay_vars, load_vars, role_vars>>
    \/ (\E r \in RunIds : CoordinatorRead(r)) /\ UNCHANGED <<replay_vars, load_vars, role_vars>>
    \/ (\E r \in RunIds : CoordinatorUnblock(r)) /\ UNCHANGED <<replay_vars, load_vars, role_vars>>
    \/ (\E r \in RunIds : CoordinatorSend(r)) /\ UNCHANGED <<replay_vars, load_vars, role_vars>>
    \/ WorkerRecv /\ UNCHANGED <<replay_vars, load_vars, role_vars, lock_vars>>
    \/ (\E req \in running : BodyRead(req)) /\ UNCHANGED <<replay_vars, load_vars, role_vars>>
    \/ (\E req \in running : BodyFind(req)) /\ UNCHANGED <<replay_vars, load_vars, role_vars>>
    \/ (\E req \in running : BodyReturn(req)) /\ UNCHANGED <<replay_vars, load_vars, role_vars>>
    \/ WorkerExit /\ UNCHANGED <<replay_vars, load_vars, role_vars, lock_vars>>

\* Every request a run can make
AllRequests ==
    {[run |-> r, analyzer |-> NameOrder[i]] : r \in RunIds, i \in 1..Len(NameOrder)}

\* Every coordinator and every worker thread takes the steps it can take
LockFairness ==
    /\ \A r \in RunIds :
          /\ WF_vars(RunBegin(r) /\ UNCHANGED <<replay_vars, load_vars, role_vars, lock_vars>>)
          /\ WF_vars(CoordinatorRecv(r) /\ UNCHANGED <<replay_vars, load_vars, role_vars>>)
          /\ WF_vars(CoordinatorWrite(r) /\ UNCHANGED <<replay_vars, load_vars, role_vars>>)
          /\ WF_vars(CoordinatorInsert(r) /\ UNCHANGED <<replay_vars, load_vars, role_vars>>)
          /\ WF_vars(CoordinatorRead(r) /\ UNCHANGED <<replay_vars, load_vars, role_vars>>)
          /\ WF_vars(CoordinatorUnblock(r) /\ UNCHANGED <<replay_vars, load_vars, role_vars>>)
          /\ WF_vars(CoordinatorSend(r) /\ UNCHANGED <<replay_vars, load_vars, role_vars>>)
    /\ \A req \in AllRequests :
          /\ WF_vars(BodyRead(req) /\ UNCHANGED <<replay_vars, load_vars, role_vars>>)
          /\ WF_vars(BodyFind(req) /\ UNCHANGED <<replay_vars, load_vars, role_vars>>)
          /\ WF_vars(BodyReturn(req) /\ UNCHANGED <<replay_vars, load_vars, role_vars>>)
    /\ WF_vars(WorkerRecv /\ UNCHANGED <<replay_vars, load_vars, role_vars, lock_vars>>)
    /\ WF_vars(WorkerExit /\ UNCHANGED <<replay_vars, load_vars, role_vars, lock_vars>>)

LockSpec == LockInit /\ [][LockNext]_vars /\ LockFairness

(***************************************************************************)
(* Properties of the scheduler                                             *)
(***************************************************************************)
Names(r) == AnalyzerNames(runs[r].program)

Started(r) == runs[r].status # "none"

\* C1: every analyzer handed to the worker queue (queued, held by a worker
\* or answered on the notify channel) has all the analyzers of its declared
\* dependency list in the run's completed map.
C1_DispatchedAfterDependencies ==
    \A r \in RunIds :
        Started(r) =>
            \A n \in InFlight(r) :
                Dependencies(runs[r].program, n) \subseteq runs[r].completed

\* An analyzer with a dependency is held by a worker.
C1_Witness ==
    \E r \in RunIds :
        /\ Started(r)
        /\ \E n \in Held(r) : Dependencies(runs[r].program, n) # {}

\* C3: at every coordinator step of a run (initialized, between two handled
\* completions, finished with success) the names in completed, blocked,
\* pending and in flight are exactly the program's analyzers.
C3_NamesAccountedFor ==
    \A r \in RunIds :
        runs[r].status \in {"waiting", "success"} =>
            runs[r].completed \cup runs[r].blocked \cup runs[r].pending
                \cup InFlight(r) = Names(r)

\* A run between completions with an analyzer completed and the analyzers
\* it unblocked in flight.
C3_Witness ==
    \E r \in RunIds :
        /\ runs[r].status = "waiting"
        /\ runs[r].completed # {}
        /\ \E n \in InFlight(r) : Dependencies(runs[r].program, n) # {}

\* The coordinator of run r receives the response at the head of notify[r].
Receives(r) ==
    /\ runs[r].status = "waiting"
    /\ notify[r] # <<>>
    /\ notify'[r] = Tail(notify[r])

\* C4: when the coordinator receives an error result the run fails with
\* that error, the failed analyzer does not enter completed, nothing is
\* unblocked or dispatched by that step or afterwards, and the run stays
\* failed.
C4_ErrorFailsRun ==
    [][\A r \in RunIds :
          /\ (Receives(r) /\ Head(notify[r]).result # "Ok") =>
                /\ runs'[r] = [runs[r] EXCEPT !.status = "failed",
                                              !.error = Head(notify[r]).result]
                /\ Head(notify[r]).analyzer \notin runs'[r].completed
                /\ Queued(r)' = Queued(r)
          /\ runs[r].status = "failed" =>
                /\ runs'[r] = runs[r]
                /\ Queued(r)' \subseteq Queued(r)]_vars

\* A run failed with the Dependency error of its role analyzer while its
\* gear analyzer is not completed.
C4_Witness ==
    \E r \in RunIds :
        /\ runs[r].status = "failed"
        /\ runs[r].error = "Dependency"
        /\ runs[r].completed = {}

\* The implementations of the analyzers that n declares as dependencies
DeclaredOutputs(f, n) ==
    {Implementation(f, d) : d \in Dependencies(f, n) \cap AnalyzerNames(f)}

\* Every analyzer of run r can be built and succeeds on the run's challenge
\* once its declared dependencies have completed.
AllSucceed(r) ==
    \A n \in Names(r) :
        /\ InitAnalyzer(Analyzers(runs[r].program)[n].implementation,
                        Analyzers(runs[r].program)[n].config) = "Ok"
        /\ Analyze(Implementation(runs[r].program, n), runs[r].challenge,
                   DeclaredOutputs(runs[r].program, n)) = "Ok"

\* C2: a run of a loaded program whose analyzers all succeed ends, while a
\* worker is alive, with success, analyzers_to_run = 0 and every analyzer of
\* the program in completed.
C2_RunTerminates ==
    \A r \in RunIds :
        (runs[r].status = "spawned" /\ AllSucceed(r))
            ~> \/ /\ runs[r].status = "success"
                  /\ runs[r].analyzers_to_run = 0
                  /\ runs[r].completed = Names(r)
               \/ Receivers = 0

(***************************************************************************)
(* Properties of the program table                                         *)
(***************************************************************************)
RECURSIVE Closure(_, _, _)
Closure(f, S, k) ==
    IF k = 0 THEN S
    ELSE Closure(f,
                 S \cup UNION {Dependencies(f, m) : m \in S \cap AnalyzerNames(f)},
                 k - 1)

\* The names n depends on, directly or through other analyzers
DependsOn(f, n) == Closure(f, Dependencies(f, n), Cardinality(AnalyzerNames(f)))

HasCycle(f) == \E n \in AnalyzerNames(f) : n \in DependsOn(f, n)

HasDanglingDependency(f) ==
    \E n \in AnalyzerNames(f) : ~(Dependencies(f, n) \subseteq AnalyzerNames(f))

Loaded == {programs[p] : p \in ProgramNames} \ {NoProgram}

\* C5: no program whose dependency graph has a cycle is in the engine's
\* program table, and so none is run.
C5_CyclicProgramRejected ==
    /\ \A f \in Loaded : ~HasCycle(f)
    /\ \A r \in RunIds : Started(r) => ~HasCycle(runs[r].program)

\* C6: no program with a dependency naming an analyzer that the program
\* does not define is in the engine's program table, and so none is run.
C6_DanglingDependencyRejected ==
    /\ \A f \in Loaded : ~HasDanglingDependency(f)
    /\ \A r \in RunIds : Started(r) => ~HasDanglingDependency(runs[r].program)

\* C7: a directory in which two program files declare the same program.name
\* does not load.
C7_DuplicateNameRejected ==
    engine = "loaded" =>
        \A f, g \in {x \in directory : IsToml(x) /\ Parses(x)} :
            f # g => ProgramName(f) # ProgramName(g)

(***************************************************************************)
(* Properties of the engine's calls                                        *)
(***************************************************************************)
Spawned == {r \in RunIds : runs[r].status # "none"}

\* A step that is a call of run_program: calls alone write api and the
\* run counter.
RunProgramCalled ==
    /\ api'.op = "run_program"
    /\ api' # api \/ num_programs_run' # num_programs_run

\* C8: run_program returns InvalidArgument for a name that is not in the
\* program table, FailedPrecondition for a known name before start, and in
\* both cases leaves the engine as it was; otherwise it returns Ok, adds
\* one to the run counter and spawns exactly the run of that number.
C8_RunProgram ==
    [][/\ RunProgramCalled =>
            LET p     == api'.program
                known == p \in ProgramNames /\ programs[p] # NoProgram
            IN  /\ ~known => api'.result = "InvalidArgument"
                /\ (known /\ dispatch_tx = "None") => api'.result = "FailedPrecondition"
                /\ (known /\ dispatch_tx # "None") => api'.result = "Ok"
                /\ api'.result # "Ok" =>
                      UNCHANGED <<directory, engine, programs, dispatch_tx, workers,
                                  idle, running, queue, num_programs_run, runs, notify>>
                /\ api'.result = "Ok" =>
                      /\ num_programs_run' = num_programs_run + 1
                      /\ Spawned' = Spawned \cup {num_programs_run'}
                      /\ num_programs_run' \notin Spawned
                      /\ runs'[num_programs_run'].status = "spawned"
                      /\ runs'[num_programs_run'].program = programs[p]
                      /\ \A r \in Spawned : runs'[r] = runs[r]
       /\ (num_programs_run' # num_programs_run \/ Spawned' # Spawned) =>
            (RunProgramCalled /\ api'.result = "Ok")]_vars

\* The second run has been spawned by a successful call.
C8_Witness ==
    /\ api = [op |-> "run_program", program |-> "tob", result |-> "Ok"]
    /\ num_programs_run = 2
    /\ runs[2].status = "spawned"

(***************************************************************************)
(* Properties of the analyzers' errors and of a closed dispatch queue      *)
(***************************************************************************)
\* C9: an analyzer that asks for the output of an analyzer type that its
\* definition does not list among its dependencies gets a Dependency error.
C9_UndeclaredOutputIsDependencyError ==
    \A r \in RunIds :
        Started(r) =>
            \A i \in 1..Len(notify[r]) :
                LET f == runs[r].program
                    n == notify[r][i].analyzer
                IN  ~(RequestedOutputs(Implementation(f, n), runs[r].challenge)
                        \subseteq DeclaredOutputs(f, n))
                    => notify[r][i].result = "Dependency"

\* A step of the coordinator of run r
CoordinatorStep(r) == Alive(r) /\ runs'[r] # runs[r]

\* The analyzers of run r that the step finds ready: not dispatched before
\* the step, every declared dependency completed after it
Due(r) ==
    LET f == runs[r].program
    IN  {n \in (IF runs[r].status = "spawned" THEN AnalyzerNames(f) ELSE runs[r].blocked) :
            Dependencies(f, n) \subseteq runs'[r].completed}

Indexed == pc \in {"player", "tick", "event", "delta", "done"}

\* The largest tick of the stage's events
LastTick ==
    CHOOSE t \in {stage_data.events[i].tick : i \in 1..Len(stage_data.events)} :
        \A i \in 1..Len(stage_data.events) : stage_data.events[i].tick <= t

Party == {stage_data.party_names[i] : i \in 1..Len(stage_data.party_names)}

\* C11: a stage with at least one event gets total_ticks = last_tick + 1 and
\* a state slot for every tick 0..=last_tick; a stage with no event gets
\* total_ticks = 0, an empty state vector for every player and no failure.
C11_TotalTicksIsLastTickPlusOne ==
    /\ Indexed =>
           events.total_ticks =
               IF stage_data.events = <<>> THEN 0 ELSE LastTick + 1
    /\ pc = "done" /\ stage_data.events = <<>> =>
           /\ stage_info = Ok
           /\ \A u \in Party : u \in DOMAIN player_state /\ player_state[u] = <<>>
    /\ stage_info = Ok /\ stage_data.events # <<>> =>
           \A u \in Party : Len(player_state[u]) = LastTick + 1

Reconstructed ==
    ({state_this_tick}
     \cup {state_by_tick[i] : i \in 1..Len(state_by_tick)}
     \cup UNION {{player_state[u][i] : i \in 1..Len(player_state[u])} :
                    u \in DOMAIN player_state})
    \ {NoState}

\* C13: a reconstructed attack state OnCooldown(n) has n >= 1.
C13_CooldownAtLeastOne ==
    \A s \in Reconstructed :
        s.attack_state.kind = "OnCooldown" => s.attack_state.ticks >= 1

\* a countdown that reached OnCooldown(1) and was Idle on the next tick
C13_Witness ==
    \E t \in 1..(Len(state_by_tick) - 1) :
        /\ state_by_tick[t] # NoState
        /\ state_by_tick[t + 1] # NoState
        /\ state_by_tick[t].attack_state = OnCooldown(1)
        /\ state_by_tick[t + 1].attack_state = Idle

\* The states reconstructed so far for the player at position i of the party
StatesOf(i) ==
    IF i < index THEN player_state[stage_data.party_names[i + 1]]
    ELSE IF i = index /\ pc \in {"tick", "event", "delta", "done"} THEN state_by_tick
    ELSE <<>>

\* The player at position i has a PlayerDeath event at tick t
DiesAt(i, t) ==
    \E j \in 1..Len(stage_data.events) :
        /\ stage_data.events[j].tick = t
        /\ stage_data.events[j].type = "PlayerDeath"
        /\ stage_data.events[j].has_player
        /\ stage_data.events[j].party_index = i

\* Slots t and t + 1 of the player at position i are filled, JustDied in t
JustDiedAt(i, t) ==
    /\ t + 2 <= Len(StatesOf(i))
    /\ StatesOf(i)[t + 1] # NoState
    /\ StatesOf(i)[t + 2] # NoState
    /\ StatesOf(i)[t + 1].death_state = "JustDied"

\* C14 as stated: JustDied at tick t is followed by Dead at tick t + 1, for
\* every event sequence.
C14_JustDiedThenDead ==
    \A i \in 0..(Len(stage_data.party_names) - 1) :
        \A t \in 0..(events.total_ticks - 1) :
            JustDiedAt(i, t) => StatesOf(i)[t + 2].death_state = "Dead"

\* C14 as amended: JustDied at tick t is followed by Dead at tick t + 1
\* unless the player has a PlayerDeath event at tick t + 1.
C14_JustDiedThenDeadUnlessDiesAgain ==
    \A i \in 0..(Len(stage_data.party_names) - 1) :
        \A t \in 0..(events.total_ticks - 1) :
            JustDiedAt(i, t) /\ ~DiesAt(i, t + 1) =>
                StatesOf(i)[t + 2].death_state = "Dead"

C14_Witness ==
    /\ JustDiedAt(0, 0)
    /\ ~DiesAt(0, 1)
    /\ StatesOf(0)[2].death_state = "Dead"

\* The builder applies a PlayerUpdate event of the player under reconstruction
AppliesUpdate ==
    /\ pc = "event"
    /\ todo # <<>>
    /\ Selected(Head(todo), index)
    /\ Head(todo).type = "PlayerUpdate"

\* C15: a PlayerUpdate at tick t with off_cooldown_tick = k turns Idle into
\* OnCooldown(k - t) when k > t, leaves Idle when k <= t, and leaves every
\* other attack state as it is.
C15_UpdateSetsCooldown ==
    [][AppliesUpdate =>
          state_this_tick'.attack_state =
              IF state_this_tick.attack_state.kind # "Idle"
              THEN state_this_tick.attack_state
              ELSE IF Head(todo).off_cooldown_tick > tick
                   THEN [kind |-> "OnCooldown",
                         ticks |-> Head(todo).off_cooldown_tick - tick]
                   ELSE [kind |-> "Idle", ticks |-> 0]]_vars

\* an update of tick 1 with off_cooldown_tick = 3 has set OnCooldown(2)
C15_Witness ==
    /\ pc = "delta"
    /\ tick = 1
    /\ state_this_tick.attack_state = OnCooldown(2)

\* The stage's PlayerUpdate events that carry a delta whose slot bits are
\* above 10, as (username, tick)
MalformedUpdates ==
    {<<stage_data.party_names[e.party_index + 1], e.tick>> :
        e \in {stage_data.events[i] : i \in
                  {j \in 1..Len(stage_data.events) :
                      /\ stage_data.events[j].type = "PlayerUpdate"
                      /\ \E d \in 1..Len(stage_data.events[j].equipment_deltas) :
                             stage_data.events[j].equipment_deltas[d][1] % 32 > 10}}}

\* C16: a stage with such an event, at whatever tick, is not built: the
\* builder returns InvalidField naming the (username, tick) of such an event.
C16_MalformedDeltaFailsStage ==
    stage_info.kind \in {"Ok", "InvalidField"} /\ MalformedUpdates # {} =>
        /\ stage_info.kind = "InvalidField"
        /\ <<stage_info.username, stage_info.tick>> \in MalformedUpdates

(***************************************************************************)
(* Properties of the item deltas                                           *)
(***************************************************************************)
\* The builder parses the next equipment delta of a PlayerUpdate
ParsesDelta == pc = "delta" /\ deltas # <<>>

\* 2^n
RECURSIVE Pow2(_)
Pow2(n) == IF n = 0 THEN 1 ELSE 2 * Pow2(n - 1)

\* Bit n of a packed value (bit 0 is the least significant bit of w0)
Bit(p, n) == (p[4 - (n \div 16)] \div Pow2(n % 16)) % 2

\* The number written by bits lo..hi of a packed value
RECURSIVE Bits(_, _, _)
Bits(p, lo, hi) == IF hi < lo THEN 0 ELSE Bit(p, lo) + 2 * Bits(p, lo + 1, hi)

\* The equipment before and after the step, outside slot
OthersUnchanged(slot) ==
    \A other \in (0..10) \ {slot} :
        state_this_tick'.equipment[other] = state_this_tick.equipment[other]

\* The delta of this step is an Add, decoded bit by bit
AddsItem == ParsesDelta /\ Bits(Head(deltas), 48, 52) <= 10 /\ Bit(Head(deltas), 31) = 1

\* C17: Add(slot, id, qty) on a slot that holds the same id makes its
\* quantity old quantity + qty; on any other slot it makes the slot
\* {id, qty}; the other slots are unchanged.  (A quantity is an i32: a sum
\* above i32::MAX is the value of no quantity.)
C17_AddSumsOrReplaces ==
    [][AddsItem =>
          LET slot == Bits(Head(deltas), 48, 52)
              id == Bits(Head(deltas), 32, 47)
              qty == Bits(Head(deltas), 0, 30)
              held == state_this_tick.equipment[slot]
              now == state_this_tick'.equipment[slot]
          IN /\ OthersUnchanged(slot)
             /\ now # <<>>
             /\ now[1] = id
             /\ IF held # <<>> /\ held[1] = id
                THEN held[2] <= I32_MAX - qty /\ now[2] = held[2] + qty
                ELSE now[2] = qty]_vars

\* The delta of this step is a Remove
RemovesItem == ParsesDelta /\ Bits(Head(deltas), 48, 52) <= 10 /\ Bit(Head(deltas), 31) = 0

\* Every quantity of an equipment vector is zero or more
NoNegative(equipment) ==
    \A slot \in 0..10 : equipment[slot] # <<>> => equipment[slot][2] >= 0

\* C18: Remove(slot, id, qty) on a slot that holds the same id with a larger
\* quantity subtracts qty; on any other slot it clears the slot; it leaves no
\* negative quantity and the other slots unchanged.
C18_RemoveSubtractsOrClears ==
    [][RemovesItem =>
          LET slot == Bits(Head(deltas), 48, 52)
              id == Bits(Head(deltas), 32, 47)
              qty == Bits(Head(deltas), 0, 30)
              held == state_this_tick.equipment[slot]
              now == state_this_tick'.equipment[slot]
          IN /\ OthersUnchanged(slot)
             /\ IF held # <<>> /\ held[1] = id /\ held[2] > qty
                THEN now = <<id, held[2] - qty>>
                ELSE now = <<>>
             /\ now # <<>> => now[2] >= 0
             /\ NoNegative(state_this_tick.equipment)
                    => NoNegative(state_this_tick'.equipment)]_vars

\* a Remove of 1 from a stack of i32::MAX
C18_Witness ==
    /\ pc = "delta"
    /\ state_this_tick.equipment[0] = <<1, I32_MAX - 1>>

\* C19: parse decodes quantity = bits 0..30, Add when bit 31 is set, item
\* id = bits 32..47, slot = bits 48..52; Ok when the slot is 0..10, an error
\* when it is 11..31.
C19_ParseDecodesBitFields ==
    ParsesDelta =>
        LET p == Head(deltas) IN
        IF Bits(p, 48, 52) > 10 THEN ~ItemDeltaParse(p).ok
        ELSE /\ ItemDeltaParse(p).ok
             /\ ItemDeltaParse(p).slot = Bits(p, 48, 52)
             /\ ItemDeltaParse(p).id = Bits(p, 32, 47)
             /\ ItemDeltaParse(p).quantity = Bits(p, 0, 30)
             /\ ItemDeltaParse(p).kind = IF Bit(p, 31) = 1 THEN "Add" ELSE "Remove"

\* 0x0003_2BD6_8000_718D was parsed and applied: 29069 of item 11222 as ammo
C19_Witness ==
    /\ pc = "delta"
    /\ deltas = <<>>
    /\ stage_data.events[1].equipment_deltas = <<U64(3, 11222, 32768, 29069)>>
    /\ state_this_tick.equipment[3] = <<11222, 29069>>

\* qty | added << 31 | id << 32 | slot << 48, in 16-bit words
Pack(slot, id, added, qty) ==
    <<slot, id, (IF added THEN 32768 ELSE 0) + (qty \div 65536), qty % 65536>>

Repacked(p) ==
    Pack(ItemDeltaParse(p).slot, ItemDeltaParse(p).id,
         ItemDeltaParse(p).kind = "Add", ItemDeltaParse(p).quantity)

\* C20 as stated: every packed value that parse accepts is what re-packing
\* its decoded (slot, id, added, qty) gives.
C20_RoundTrip ==
    ParsesDelta /\ ItemDeltaParse(Head(deltas)).ok => Repacked(Head(deltas)) = Head(deltas)

\* C20 as amended: every packed value that parse accepts and whose bits
\* 53..63 are zero is what re-packing its decoded tuple gives.
C20_RoundTripOfCanonical ==
    ParsesDelta /\ ItemDeltaParse(Head(deltas)).ok /\ Bits(Head(deltas), 53, 63) = 0
        => Repacked(Head(deltas)) = Head(deltas)

\* a value with every quantity bit, the added flag and slot 10 has been parsed
C20_Witness ==
    /\ pc = "delta"
    /\ deltas = <<>>
    /\ stage_data.events[1].equipment_deltas = <<U64(10, 65535, 65535, 65535)>>
    /\ state_this_tick.equipment[10] = <<65535, I32_MAX>>

(***************************************************************************)
(* Properties of the status decoding                                       *)
(***************************************************************************)
Decoded == challenge_status # None /\ status # NoResult

\* C21: Status::try_from(v) of a 16-bit signed v is InProgress for 0,
\* Completed for 1, Wiped for 2 and Reset for 3; for every other v, from
\* i16::MIN to i16::MAX, it is the error InvalidField("status").
C21_StatusTryFrom ==
    Decoded =>
        LET v == challenge_status[1] IN
        /\ v \in I16_MIN..I16_MAX
        /\ (v = 0 => status = [kind |-> "Ok", value |-> "InProgress"])
        /\ (v = 1 => status = [kind |-> "Ok", value |-> "Completed"])
        /\ (v = 2 => status = [kind |-> "Ok", value |-> "Wiped"])
        /\ (v = 3 => status = [kind |-> "Ok", value |-> "Reset"])
        /\ (v \notin 0..3 => status = [kind |-> "InvalidField", field |-> "status"])

\* 3 has been decoded to Reset
C21_Witness ==
    /\ challenge_status = Some(3)
    /\ status = [kind |-> "Ok", value |-> "Reset"]

\* C22: InProgress, Completed, Reset and Wiped have the wire values 0, 1, 2
\* and 3, and the variant decoded from a v in 0..3 has the wire value v.
C22_DecodingAgreesWithWireValues ==
    /\ <<StatusAsI16("InProgress"), StatusAsI16("Completed"),
         StatusAsI16("Reset"), StatusAsI16("Wiped")>> = <<0, 1, 2, 3>>
    /\ (Decoded /\ challenge_status[1] \in 0..3) =>
           /\ status.kind = "Ok"
           /\ StatusAsI16(status.value) = challenge_status[1]

(***************************************************************************)
(* Properties of the role analyzer                                         *)
(***************************************************************************)
\* analyze has its challenge of the Theatre of Blood and its gear output
HasInputs == challenge.type = "Tob" /\ challenge.gear

\* The sequences s and t hold the same roles the same number of times
SameRoles(s, t) == \A r \in Roles : Count(s, r) = Count(t, r)

\* C23: given its inputs, the analyzer takes its candidate roles from the
\* party size: Solo for the only player of a party of 1, {DuoMage,
\* DuoRanger} for 2, {Mage, Ranger, Melee} for 3, {Mage, MeleeFreeze,
\* Ranger, Melee} for 4, {Mage, Mage, Ranger, Melee, Melee} for 5; for any
\* other size it fails with FailedPrecondition and assigns nothing.
C23_RolesFromPartySize ==
    HasInputs =>
        LET scale == Scale(challenge)
            candidates == ctx.roles_to_assign
            chosen == role_pc = "find_role_matches"
        IN /\ (role_pc # "analyze" /\ scale \in 2..5) =>
                  role_output.kind # "FailedPrecondition"
           /\ (role_pc # "analyze" /\ scale = 1) =>
                  role_output = [kind |-> "Ok", roles |-> [player \in {1} |-> "Solo"]]
           /\ (chosen /\ scale = 2) => SameRoles(candidates, <<"DuoMage", "DuoRanger">>)
           /\ (chosen /\ scale = 3) => SameRoles(candidates, <<"Mage", "Ranger", "Melee">>)
           /\ (chosen /\ scale = 4) =>
                  SameRoles(candidates, <<"Mage", "MeleeFreeze", "Ranger", "Melee">>)
           /\ (chosen /\ scale = 5) =>
                  SameRoles(candidates, <<"Mage", "Mage", "Ranger", "Melee", "Melee">>)
           /\ (role_pc # "analyze" /\ scale \notin 1..5) =>
                  /\ role_pc = "done"
                  /\ role_output.kind = "FailedPrecondition"
                  /\ assigned_roles = <<>>

\* A party of six has been refused
C23_Witness ==
    /\ HasInputs
    /\ Scale(challenge) = 6
    /\ role_output.kind = "FailedPrecondition"

\* C24: for a party of 2 to 5 the analyzer returns either a mapping that
\* holds every party member once, each with a primary role, or the error
\* IncompleteData, which it returns in particular when more than one player
\* is left matching no role; it returns nothing else.
C24_AllOrNothing ==
    (HasInputs /\ Scale(challenge) \in 2..5 /\ role_pc = "done") =>
        /\ \/ /\ role_output.kind = "Ok"
              /\ DOMAIN role_output.roles = 1..Scale(challenge)
              /\ \A player \in 1..Scale(challenge) : role_output.roles[player] \in Roles
           \/ role_output = [kind |-> "IncompleteData"]
        /\ Len(ctx.players_not_matching_any_role) > 1 =>
               role_output = [kind |-> "IncompleteData"]

\* The evidence of the three players of the example
BarragedWithMeleeWeapon(p) ==
    /\ p.maiden_barraged /\ p.melee_weapon
    /\ ~p.maiden_chinned /\ ~p.maiden_dinhs /\ ~p.dinhs_bulwark

ChinnedOnly(p) ==
    /\ p.maiden_chinned
    /\ ~p.maiden_barraged /\ ~p.melee_weapon /\ ~p.maiden_dinhs /\ ~p.dinhs_bulwark

HasDinhsOnly(p) ==
    /\ p.maiden_dinhs \/ p.dinhs_bulwark
    /\ ~p.maiden_barraged /\ ~p.maiden_chinned /\ ~p.melee_weapon

\* A trio that ended at the first boss, made of the three players in some order
Trio ==
    /\ HasInputs
    /\ Scale(challenge) = 3
    /\ challenge.stage = "TobMaiden"
    /\ \E i, j, k \in 1..3 :
           /\ {i, j, k} = 1..3
           /\ BarragedWithMeleeWeapon(challenge.party[i])
           /\ ChinnedOnly(challenge.party[j])
           /\ HasDinhsOnly(challenge.party[k])

\* The mapping of the example
TrioRoles ==
    /\ role_output.kind = "Ok"
    /\ DOMAIN role_output.roles = 1..3
    /\ \A i \in 1..3 :
           /\ BarragedWithMeleeWeapon(challenge.party[i]) => role_output.roles[i] = "Mage"
           /\ ChinnedOnly(challenge.party[i]) => role_output.roles[i] = "Ranger"
           /\ HasDinhsOnly(challenge.party[i]) => role_output.roles[i] = "Melee"

\* C25: for a trio that ended at the first boss, where p1 barraged the adds
\* and owns a melee weapon, p2 chinned the adds and p3 has Dinh's, the
\* analyzer assigns p1 Mage, p2 Ranger and p3 Melee in every party order.
C25_TrioExample == (Trio /\ role_pc = "done") => TrioRoles

\* C25, amended: the same for a trio that is not in hard mode.
C25_TrioExampleNotHardMode ==
    (Trio /\ challenge.mode # "TobHard" /\ role_pc = "done") => TrioRoles

\* The example with the players in the order p3, p2, p1
C25_Witness ==
    /\ Trio
    /\ challenge.mode # "TobHard"
    /\ HasDinhsOnly(challenge.party[1])
    /\ BarragedWithMeleeWeapon(challenge.party[3])
    /\ role_pc = "done"
    /\ role_output.kind = "Ok"

(***************************************************************************)
(* Properties of the lock of `completed`                                   *)
(***************************************************************************)
\* The coordinator of run r holds a guard
CoordinatorHolds(r) == \E g \in guards[r] : g[2] = Coordinator

\* The body of `req` stands at its read() without a guard
AwaitsRead(req) ==
    /\ req \in running
    /\ req \notin body
    /\ Reads(req)
    /\ ReadGuard(req.analyzer) \notin guards[req.run]

\* A thread of run r stands at read() or write() of the lock
AwaitsLock(r) ==
    \/ co[r].pc \in {"write", "read"}
    \/ \E req \in AllRequests : req.run = r /\ AwaitsRead(req)

\* C26: `completed` is written only by the coordinator, under its write
\* guard; the coordinator holds no guard while it waits for a response or
\* sends requests (it holds one only from write() to the insert and from
\* read() to the end of unblock_analyzers); and no thread stands at the
\* lock forever: a thread at read() or write() stays there until it is
\* served, so the moments at which nobody waits recurring means that every
\* analyzer body and every insert of the coordinator gets the lock.
C26_LockNeverHeldAcrossWaits ==
    /\ [](\A r \in RunIds :
             /\ CoordinatorHolds(r) => co[r].pc \in {"insert", "unblock"}
             /\ WriteGuard(Coordinator) \in guards[r] =>
                    guards[r] = {WriteGuard(Coordinator)})
    /\ [][\A r \in RunIds :
             runs'[r].completed # runs[r].completed =>
                 /\ co[r].pc = "insert"
                 /\ guards[r] = {WriteGuard(Coordinator)}]_vars
    /\ []<>(\A r \in RunIds : ~AwaitsLock(r))

\* The coordinator waits at write() while an analyzer body holds a read
\* guard
C26_Witness ==
    \E r \in RunIds :
        /\ co[r].pc = "write"
        /\ \E g \in guards[r] : g[1] = "read" /\ g[2] # Coordinator

(***************************************************************************)
(* Properties of the coordinator loop                                      *)
(***************************************************************************)
\* Run r stands at an evaluation of `while self.analyzers_to_run > 0`: it
\* either waits for the next response or has returned Ok
AtLoopCondition(r) == runs[r].status \in {"waiting", "success"}

\* The counter of run r and its completed map agree
CountsCompleted(r) ==
    runs[r].analyzers_to_run =
        Cardinality(Names(r)) - Cardinality(runs[r].completed)

\* A step that decrements the counter of run r has inserted the analyzer of
\* the response into completed and has sent every analyzer this unblocked
DecrementsAfterDispatch(r) ==
    runs'[r].analyzers_to_run < runs[r].analyzers_to_run =>
        LET n == Head(notify[r]).analyzer
            ready == {m \in runs[r].blocked :
                        Dependencies(runs[r].program, m) \subseteq
                            runs[r].completed \cup {n}}
        IN /\ runs'[r].analyzers_to_run = runs[r].analyzers_to_run - 1
           /\ runs'[r].completed = runs[r].completed \cup {n}
           /\ n \notin runs[r].completed
           /\ runs'[r].pending = {}
           /\ runs'[r].blocked = runs[r].blocked \ ready
           /\ \A m \in ready :
                  \E i \in (Len(queue) + 1)..Len(queue') :
                      queue'[i] = [run |-> r, analyzer |-> m]

\* C27: the counter is decremented only once the completed analyzer is in
\* `completed` and the analyzers this unblocked are dispatched; at every
\* evaluation of the loop condition analyzers_to_run is the number of the
\* program's analyzers minus the size of `completed`; `completed` only
\* grows and the counter never goes below zero.
C27_CounterFollowsCompleted ==
    /\ [](\A r \in RunIds :
             /\ AtLoopCondition(r) => CountsCompleted(r)
             /\ runs[r].analyzers_to_run >= 0)
    /\ [][\A r \in RunIds :
             /\ runs[r].completed \subseteq runs'[r].completed
             /\ DecrementsAfterDispatch(r)]_vars

\* A run of three analyzers has returned Ok with all of them completed
C27_Witness ==
    \E r \in RunIds :
        /\ runs[r].status = "success"
        /\ Cardinality(runs[r].completed) = 3
        /\ runs[r].analyzers_to_run = 0


(***************************************************************************)
(* Properties of the state a tick starts from                              *)
(***************************************************************************)
\* The player at position i has an event at tick t
HasEventAt(i, t) ==
    \E j \in 1..Len(stage_data.events) :
        stage_data.events[j].tick = t /\ Selected(stage_data.events[j], i)

\* The player at position i has a PlayerUpdate event at tick t
UpdatedAt(i, t) ==
    \E j \in 1..Len(stage_data.events) :
        /\ stage_data.events[j].tick = t
        /\ stage_data.events[j].type = "PlayerUpdate"
        /\ Selected(stage_data.events[j], i)

\* The state of tick t is stored in the vector s
StoredAt(s, t) == (t + 1) \in DOMAIN s /\ s[t + 1] # NoState

\* A tick after the first one begins
TickBegins == pc = "tick" /\ tick > 0 /\ tick < events.total_ticks

\* The attack state the claim derives from the one of the tick before
AttackStateAfter(a) ==
    IF a.kind = "OnCooldown" /\ a.ticks = 1 THEN "Idle"
    ELSE IF a.kind = "OnCooldown" /\ a.ticks > 1 THEN "OnCooldown"
    ELSE "Idle"

\* C28: a tick starts Idle after OnCooldown(1), OnCooldown(n - 1) after
\* OnCooldown(n) with n > 1, and Idle after anything else; so a player in
\* OnCooldown(n) at tick t with no event in ticks t+1..t+n is in
\* OnCooldown(n - j) at tick t+j for 0 < j < n and Idle at tick t+n.
C28_CooldownCountsDown ==
    /\ [][TickBegins =>
             LET before == state_by_tick[tick].attack_state
                 after  == state_this_tick'.attack_state
             IN /\ after.kind = AttackStateAfter(before)
                /\ after.kind = "OnCooldown" => after.ticks = before.ticks - 1]_vars
    /\ [](\A i \in 0..(Len(stage_data.party_names) - 1) :
            LET s == StatesOf(i) IN
            \A t \in 0..MaxTicks :
               (StoredAt(s, t) /\ s[t + 1].attack_state.kind = "OnCooldown") =>
                  LET n == s[t + 1].attack_state.ticks IN
                  \A j \in 1..n :
                     (/\ StoredAt(s, t + j)
                      /\ \A k \in 1..j : ~HasEventAt(i, t + k)) =>
                         s[t + j + 1].attack_state =
                             IF j < n THEN OnCooldown(n - j) ELSE Idle)

\* A cooldown of three ticks, with no event of the player, has counted down
\* to Idle
C28_Witness ==
    /\ stage_info = Ok
    /\ \E t \in 0..MaxTicks :
          LET s == StatesOf(0) IN
          /\ StoredAt(s, t) /\ StoredAt(s, t + 3)
          /\ s[t + 1].attack_state = OnCooldown(3)
          /\ \A k \in 1..3 : ~HasEventAt(0, t + k)
          /\ s[t + 3].attack_state = OnCooldown(1)
          /\ s[t + 4].attack_state = Idle

\* C29: a tick starts Dead after JustDied and Alive after every other state,
\* Dead included, before its events are applied; a PlayerDeath event of the
\* player at the tick then makes the tick's state JustDied.
C29_DeathStatePerTick ==
    /\ [][TickBegins =>
             state_this_tick'.death_state =
                 IF state_by_tick[tick].death_state = "JustDied" THEN "Dead"
                 ELSE "Alive"]_vars
    /\ [](\A i \in 0..(Len(stage_data.party_names) - 1) :
            LET s == StatesOf(i) IN
            \A t \in 0..MaxTicks :
               StoredAt(s, t) =>
                  s[t + 1].death_state =
                      IF DiesAt(i, t) THEN "JustDied"
                      ELSE IF t > 0 /\ s[t].death_state = "JustDied" THEN "Dead"
                      ELSE "Alive")

\* A player who was Dead is Alive on the next tick, and JustDied on a tick
\* after that
C29_Witness ==
    /\ stage_info = Ok
    /\ \E t \in 1..MaxTicks :
          LET s == StatesOf(0) IN
          /\ StoredAt(s, t + 1)
          /\ s[t].death_state = "Dead"
          /\ s[t + 1].death_state = "Alive"
          /\ s[t + 2].death_state = "JustDied"

\* C30: on a tick t >= 1 with no PlayerUpdate event of the player, the
\* position, the prayers and the eleven equipment slots are those of tick
\* t - 1 and the seven stats are None; a stat of a tick is not None only if
\* a PlayerUpdate event of the player at that tick supplies the skill.
C30_CarriedForwardExceptStats ==
    \A i \in 0..(Len(stage_data.party_names) - 1) :
        LET s == StatesOf(i) IN
        \A t \in 0..MaxTicks :
           StoredAt(s, t) =>
              /\ (t >= 1 /\ ~UpdatedAt(i, t)) =>
                    /\ s[t + 1].position = s[t].position
                    /\ s[t + 1].prayers = s[t].prayers
                    /\ \A slot \in 0..10 :
                          s[t + 1].equipment[slot] = s[t].equipment[slot]
                    /\ \A skill \in Skills : s[t + 1].stats[skill] = None
              /\ \A skill \in Skills :
                    s[t + 1].stats[skill] # None =>
                       \E j \in 1..Len(stage_data.events) :
                          /\ stage_data.events[j].tick = t
                          /\ stage_data.events[j].type = "PlayerUpdate"
                          /\ Selected(stage_data.events[j], i)
                          /\ stage_data.events[j].skills[skill] # None

\* A tick without an update follows a tick whose update set a position, a
\* prayer, a helmet and two stats
C30_Witness ==
    /\ stage_info = Ok
    /\ \E t \in 1..MaxTicks :
          LET s == StatesOf(0) IN
          /\ StoredAt(s, t)
          /\ ~UpdatedAt(0, t)
          /\ HasEventAt(0, t)
          /\ s[t].stats["attack"] = Some([base |-> 99, current |-> -1])
          /\ s[t].position = Coords(3, 4)
          /\ s[t].prayers # PrayerSetEmpty
          /\ s[t].equipment[0] # NoItem
          /\ s[t + 1].position = Coords(3, 4)

(***************************************************************************)
(* Properties of the index of a stage's events                             *)
(***************************************************************************)
\* The events of tick t, in the order of the tick-sorted list
EventsOfTick(all, t) == SelectSeq(all, LAMBDA e : e.tick = t)

\* The 0-based index of the first event of tick t in the tick-sorted list,
\* or the sentinel -1
FirstIndexOf(all, t) ==
    IF \E j \in 1..Len(all) : all[j].tick = t
    THEN (CHOOSE j \in 1..Len(all) :
              all[j].tick = t /\ \A k \in 1..(j - 1) : all[k].tick # t) - 1
    ELSE -1

\* C31: for every event list, with or without events at every tick,
\* tick_indices[t] is the index of the first event of tick t or the
\* sentinel, and the lookup of each tick the builder visits returns exactly
\* the events of that tick without indexing out of range.
C31_ForTickReturnsEventsOfTick ==
    pc # "new" =>
        /\ \A t \in DOMAIN events.tick_indices :
              events.tick_indices[t] = FirstIndexOf(events.all, t)
        /\ \A t \in 0..(events.total_ticks - 1) :
              /\ ~ForTick(events, t).panic
              /\ ForTick(events, t).events = EventsOfTick(events.all, t)

(***************************************************************************)
(* Properties of the stored skill levels                                   *)
(***************************************************************************)
\* C32: a skill level stored from a PlayerUpdate has base = raw & 0xFFFF and
\* current = (raw >> 16) & 0xFFFF, both non-negative, whatever the two
\* halves of raw are.
C32_SkillLevelHalvesUnsigned ==
    \A i \in 0..(Len(stage_data.party_names) - 1) :
        LET s == StatesOf(i) IN
        \A t \in 0..MaxTicks :
           StoredAt(s, t) =>
              \A skill \in Skills :
                 s[t + 1].stats[skill] # None =>
                    \E j \in 1..Len(stage_data.events) :
                       LET e == stage_data.events[j] IN
                       /\ e.tick = t
                       /\ e.type = "PlayerUpdate"
                       /\ Selected(e, i)
                       /\ e.skills[skill] # None
                       /\ s[t + 1].stats[skill][1].base = e.skills[skill][1][2]
                       /\ s[t + 1].stats[skill][1].current = e.skills[skill][1][1]
                       /\ s[t + 1].stats[skill][1].base >= 0
                       /\ s[t + 1].stats[skill][1].current >= 0

(***************************************************************************)
(* Properties of the backtracking assignment of roles                      *)
(***************************************************************************)
\* determine_roles is about to call try_assign_roles
BeforeSearch == role_pc = "try_assign_roles"

\* C33 as stated: before the backtracking search the players without a
\* strong match are ordered by ascending count of weak matches.
C33_AscendingWeakMatches ==
    BeforeSearch =>
        \A j, k \in 1..Len(ctx.unassigned_players) :
            j < k => ctx.unassigned_players[j][2] <= ctx.unassigned_players[k][2]

\* C33 amended: before the backtracking search the players without a strong
\* match are ordered by descending count of weak matches, the player with
\* the most weak matches first and the player with the fewest last.
C33_DescendingWeakMatches ==
    BeforeSearch =>
        \A j, k \in 1..Len(ctx.unassigned_players) :
            j < k => ctx.unassigned_players[j][2] >= ctx.unassigned_players[k][2]

\* The search starts with a player of two weak matches before a player of
\* none, who stands earlier in the party
C33_Witness ==
    /\ BeforeSearch
    /\ \E j, k \in 1..Len(ctx.unassigned_players) :
          /\ j < k
          /\ ctx.unassigned_players[j][2] >= 2
          /\ ctx.unassigned_players[k][2] = 0
          /\ ctx.unassigned_players[k][1] < ctx.unassigned_players[j][1]

\* The one-to-one maps of k players to k role instances
Bijections(k) == {f \in [1..k -> 1..k] : \A a, b \in 1..k : f[a] = f[b] => a = b}

\* The roles try_assign_roles has added to assigned_roles in this step
NewlyAssigned ==
    SubSeq(assigned_roles', Len(assigned_roles) + 1, Len(assigned_roles'))

\* C34: the search over the k roles left and the k ordered players returns
\* an assignment exactly when the roles can be given one-to-one to the
\* players so that each of the first k - 1 players weakly matches its role;
\* a returned assignment takes the players in their order, each once, and
\* every role instance once; a failed search leaves the role list in the
\* order it had at entry.
C34_SearchFindsAssignmentIffOneExists ==
    [][BeforeSearch =>
          LET roles   == ctx.roles_to_assign
              players == ctx.unassigned_players
              k       == Len(roles)
              found   == Len(assigned_roles') = Len(assigned_roles) + k
          IN /\ found <=>
                   \E f \in Bijections(k) :
                       \A j \in 1..(k - 1) :
                           Contains(ctx.weak_matches[roles[f[j]]], players[j][1])
             /\ found =>
                   /\ \A j \in 1..k : NewlyAssigned[j][1] = players[j][1]
                   /\ \A a, b \in 1..k :
                          NewlyAssigned[a][1] = NewlyAssigned[b][1] => a = b
                   /\ \E f \in Bijections(k) :
                          \A j \in 1..k : NewlyAssigned[j][2] = roles[f[j]]
             /\ ~found =>
                   /\ role_output' = IncompleteData
                   /\ ctx'.roles_to_assign = roles]_vars

\* A search over three roles or more has failed after it had given the
\* first player a role that was not the first of the list
C34_Witness ==
    /\ role_pc = "done"
    /\ role_output = IncompleteData
    /\ Len(ctx.players_not_matching_any_role) <= 1
    /\ Len(ctx.roles_to_assign) >= 3
    /\ Len(ctx.roles_to_assign) = Len(ctx.unassigned_players)
    /\ Len(assigned_roles) + Len(ctx.roles_to_assign) = Scale(challenge)
    /\ ~Contains(ctx.weak_matches[ctx.roles_to_assign[1]], ctx.unassigned_players[1][1])
    /\ \E i \in 2..Len(ctx.roles_to_assign) :
          Contains(ctx.weak_matches[ctx.roles_to_assign[i]], ctx.unassigned_players[1][1])

(***************************************************************************)
(* Independence of the players' reconstructions                            *)
(***************************************************************************)
\* The events that carry the player at position i, in the order of their
\* ticks
OwnEvents(i) ==
    SortByTick(SelectSeq(stage_data.events, LAMBDA e : Selected(e, i)))

\* The deltas of an update applied in order to an equipment
RECURSIVE WithDeltas(_, _)
WithDeltas(equipment, ds) ==
    IF ds = <<>> THEN equipment
    ELSE WithDeltas(ApplyEquipmentDelta(equipment, ItemDeltaParse(Head(ds))), Tail(ds))

\* The events of tick t among `own`, from the j-th on, applied to a state
RECURSIVE WithEvents(_, _, _, _)
WithEvents(state, own, j, t) ==
    IF j > Len(own) THEN state
    ELSE IF own[j].tick # t THEN WithEvents(state, own, j + 1, t)
    ELSE LET after == ApplyPlayerEvent(state, own[j], t)
         IN WithEvents([after EXCEPT !.equipment =
                                  WithDeltas(@, own[j].equipment_deltas)],
                       own, j + 1, t)

\* The state of tick t as the player's own events alone give it
RECURSIVE StateFromOwnEvents(_, _)
StateFromOwnEvents(own, t) ==
    WithEvents(IF t = 0 THEN FirstState(0) ELSE NextTick(StateFromOwnEvents(own, t - 1)),
               own, 1, t)

\* C35: the states of the party member at position i are a function of the
\* stage's total tick count and of the events whose player has party index
\* i alone: whatever the other events of the stage are, the stage is built
\* and holds for the player the states their own events give.  (A stage
\* that fails with InvalidField on a malformed delta holds states for
\* nobody and is left aside.)
C35_StatesDependOnOwnEventsOnly ==
    (pc = "done" /\ stage_info.kind # "InvalidField") =>
        /\ stage_info = Ok
        /\ \A i \in 0..(Len(stage_data.party_names) - 1) :
              player_state[Username(i)] =
                  [t \in 1..events.total_ticks |->
                      StateFromOwnEvents(OwnEvents(i), t - 1)]

(***************************************************************************)
(* Properties of the roles left after the strong matches and the guesses   *)
(***************************************************************************)
\* determine_roles has come to its assert_eq
AtAssertion ==
    /\ role_pc \in {"try_assign_roles", "done"}
    /\ HasInputs
    /\ Scale(challenge) \in 2..5
    /\ Len(ctx.players_not_matching_any_role) <= 1

\* C36: for every party of 2 to 5, once the strong matches and the guesses
\* of try_guess_unmatched_roles are made, as many roles are left to assign
\* as players are left unassigned: the assert_eq of determine_roles holds.
C36_AssertionHolds ==
    AtAssertion =>
        /\ Len(ctx.roles_to_assign) = Len(ctx.unassigned_players)
        /\ role_output # Panic

\* How many players of a successful result hold the role
Holders(role) ==
    Cardinality({player \in DOMAIN role_output.roles : role_output.roles[player] = role})

\* The analyzer has succeeded for a party of 2 to 5
Succeeded ==
    /\ role_pc = "done"
    /\ role_output.kind = "Ok"
    /\ Scale(challenge) \in 2..5

\* C37: whenever the analyzer succeeds for a party of 2 to 5, the primary
\* roles it assigned are the candidate roles of the scale, each as many
\* times as the scale has it: no role instance goes to two players and no
\* candidate role is left out.
C37_AssignedRolesAreTheCandidates ==
    Succeeded =>
        \A role \in Roles :
            Holders(role) = Count(RolesToAssign(Scale(challenge)), role)

\* A party of four has its roles: a mage was matched for certain, the one
\* player who might have been the mage was made the melee freezer, and the
\* search gave out the roles left
C37_Witness ==
    /\ Succeeded
    /\ Scale(challenge) = 4
    /\ ctx.strong_matches["Mage"] # <<>>
    /\ Len(ctx.weak_matches["Mage"]) = 1
    /\ role_output.roles[ctx.weak_matches["Mage"][1]] = "MeleeFreeze"
    /\ Len(ctx.roles_to_assign) >= 1

\* C38: while the engine exists and its workers have been started, the
\* number of live workers (idle or running an analyzer) equals the
\* worker_count given to start.
C38_WorkersStayAlive ==
    (engine = "loaded" /\ dispatch_tx = "Some") => Receivers = workers

\* The number of requests for analyzer n of run r in the worker queue
TimesQueued(r, n) ==
    Cardinality({j \in 1..Len(queue) : queue[j] = [run |-> r, analyzer |-> n]})

\* The number of responses of analyzer n in run r's notify channel
TimesAnswered(r, n) ==
    Cardinality({j \in 1..Len(notify[r]) : notify[r][j].analyzer = n})

\* The places analyzer n of run r is in: the run's blocked, pending and
\* completed maps, the worker queue, a worker, the notify channel, the
\* response the coordinator has received and not yet inserted
PlacesOf(r, n) ==
    {p \in {"blocked", "pending", "queued", "held", "answered", "received",
            "completed"} :
        \/ p = "blocked" /\ n \in runs[r].blocked
        \/ p = "pending" /\ n \in runs[r].pending
        \/ p = "queued" /\ n \in Queued(r)
        \/ p = "held" /\ n \in Held(r)
        \/ p = "answered" /\ n \in Answered(r)
        \/ p = "received" /\ co[r].pc \in {"write", "insert"} /\ co[r].analyzer = n
        \/ p = "completed" /\ n \in runs[r].completed}

\* The order in which an analyzer passes through its places
Rank(p) ==
    CASE p = "blocked" -> 0
      [] p = "pending" -> 1
      [] p = "queued" -> 2
      [] p = "held" -> 3
      [] p = "answered" -> 4
      [] p = "received" -> 5
      [] p = "completed" -> 6

\* Every analyzer of a run is in at most one place and at most once in the
\* queue and in the notify channel; while the run waits for responses, and
\* when it has succeeded, every analyzer of its program is in exactly one.
OnePlaceEach ==
    \A r \in RunIds :
        Started(r) =>
            \A n \in AnalyzerNames(runs[r].program) :
                /\ Cardinality(PlacesOf(r, n)) <= 1
                /\ TimesQueued(r, n) <= 1
                /\ TimesAnswered(r, n) <= 1
                /\ runs[r].status \in {"waiting", "success"} =>
                       Cardinality(PlacesOf(r, n)) = 1

\* No step moves an analyzer to an earlier place.
NeverBackwards ==
    \A r \in RunIds :
        Started(r) =>
            \A n \in AnalyzerNames(runs[r].program) :
                \A p \in PlacesOf(r, n) :
                    /\ \A q \in PlacesOf(r, n)' : Rank(q) >= Rank(p)
                    /\ p = "completed" => n \in runs'[r].completed

\* C39: within one program run every analyzer is in exactly one of blocked,
\* pending, in flight (queued, held by one worker, answered, or received by
\* the coordinator and about to be inserted) or completed, is in the worker queue at most once, and never moves back to
\* an earlier place.
C39_EachAnalyzerDispatchedOnce ==
    /\ []OnePlaceEach
    /\ [][NeverBackwards]_vars

\* A run with one analyzer completed and its two dependants unblocked and
\* sent: one held by a worker, the other still in the queue.
C39_Witness ==
    \E r \in RunIds :
        /\ runs[r].status = "waiting"
        /\ runs[r].completed # {}
        /\ Held(r) # {}
        /\ Queued(r) # {}

\* The implementations of the analyzers that analyzer n of file f declares
\* as its dependencies
DeclaredImpls(f, n) == {Implementation(f, d) : d \in Dependencies(f, n) \cap AnalyzerNames(f)}

\* C40: the result an analyzer reports is the one it computes from the
\* outputs of its declared dependencies alone, whichever other analyzers of
\* the run have completed when it runs.
C40_OutputIndependentOfSiblings ==
    \A r \in RunIds :
        \A i \in 1..Len(notify[r]) :
            LET n == notify[r][i].analyzer
                f == runs[r].program
            IN  notify[r][i].result =
                    Analyze(Implementation(f, n), runs[r].challenge, DeclaredImpls(f, n))

=============================================================================
